---- MODULE Spec2Model ----
(***************************************************************************)
(* Verifier-side core of the ZK proof-of-solvency tools: Poseidon linear   *)
(* hashing, public-output aggregation, anonymity-set hashing, Groth16      *)
(* verification and receipt verification.                                  *)
(*                                                                         *)
(* Conventions of the model                                                *)
(*  - A Python integer or field element is a sequence of integers: the     *)
(*    plain integer n is <<0, n>>, the word i of a Poseidon permutation    *)
(*    is <<1, i, t>> followed by the t encoded input words.  The encoding  *)
(*    is prefix-free, so two values are equal exactly when they are the    *)
(*    same integer or the same permutation word of the same inputs: the    *)
(*    permutation is an uninterpreted, collision-free function.            *)
(*  - A raised exception is the value RAISE; a value not yet computed is   *)
(*    NONE.                                                                *)
(*  - Bit widths and decimal precisions too large to enumerate are scaled  *)
(*    down; every scaled quantity is a named definition with the source    *)
(*    value in its comment.                                                *)
(*  - Text is a sequence of one-character strings.                         *)
(***************************************************************************)
EXTENDS Integers, Sequences, FiniteSets, TLC

VARIABLES
    \* linear_hash_many: the input list, the arity, the number of zeros
    \* appended for the second call, and the two digests
    lhm_inputs, lhm_arity, lhm_k, lhm_digest, lhm_digest_ext,
    \* hash_pub_outputs: the public-outputs bundle and the returned hash
    pub_outputs, final_hash,
    \* the one integer of the bundle changed after it was hashed (none
    \* before) and the hash returned for the bundle as it was
    pub_altered, prev_hash,
    \* verify_proof: the JSON text of the proof and the verifying key, the
    \* public input, the decoded Proof and VerifyingKey, and verify's result
    raw_proof, raw_vk, pub_input, proof, vk, verification,
    \* verify_receipt: the receipt r, the control point, the two results, the
    \* index of the loop of step 2c, and the one change made to a receipt
    \* that had verified (none before)
    r, pc, correct_account_id, merkle_branch_valid, loop_i, tamper,
    \* get_anonset_hash: its three arguments, whether it has been called,
    \* and what it returned
    anonset, anonset_type, npubaddrs, anon_called, anonset_hash,
    \* scaling: the arguments of scale_units, a token, and what scale_units, the scaling back, and the two conversions to proof precision returned
    sc_value, sc_in_dec, sc_out_dec, sc_round_up, sc_token, sc_result, sc_back, sc_snapshot, sc_account,
    \* poseidon_hash: its two arguments and what it returned
    ph_input, ph_arity, ph_output,
    \* address decoding: an address, an anonset type, and what btc_addr_to_int and make_address_integer_regs returned
    ma_address, ma_type, ma_int, ma_regs,
    \* perm step by step: its arguments, the tables of the width, its locals
    \* state_words and rc_counter, the rounds made, its position and its result
    pw_input, pw_t, pw_RP, pw_M, pw_RC, pw_words, pw_rc, pw_r, pw_pc, pw_out,
    \* linear_hash_many step by step: its arguments, its locals, the iterations made and its position
    ll_inputs, ll_arity, ll_remaining, ll_hash, ll_iters, ll_pc

lhmVars == <<lhm_inputs, lhm_arity, lhm_k, lhm_digest, lhm_digest_ext>>
pubVars == <<pub_outputs, final_hash, pub_altered, prev_hash>>
grothVars == <<raw_proof, raw_vk, pub_input, proof, vk, verification>>
rcptVars == <<r, pc, correct_account_id, merkle_branch_valid, loop_i, tamper>>
anonVars == <<anonset, anonset_type, npubaddrs, anon_called, anonset_hash>>
scaleVars == <<sc_value, sc_in_dec, sc_out_dec, sc_round_up, sc_token, sc_result, sc_back, sc_snapshot, sc_account>>
hashVars == <<ph_input, ph_arity, ph_output>>
addrVars == <<ma_address, ma_type, ma_int, ma_regs>>
permVars == <<pw_input, pw_t, pw_RP, pw_M, pw_RC, pw_words, pw_rc, pw_r, pw_pc, pw_out>>
loopVars == <<ll_inputs, ll_arity, ll_remaining, ll_hash, ll_iters, ll_pc>>

\* what the operations of one component leave alone
notLhmVars == <<pubVars, grothVars, rcptVars, anonVars, scaleVars, hashVars, addrVars, permVars, loopVars>>
notPubVars == <<lhmVars, grothVars, rcptVars, anonVars, scaleVars, hashVars, addrVars, permVars, loopVars>>
notGrothVars == <<lhmVars, pubVars, rcptVars, anonVars, scaleVars, hashVars, addrVars, permVars, loopVars>>
notRcptVars == <<lhmVars, pubVars, grothVars, anonVars, scaleVars, hashVars, addrVars, permVars, loopVars>>
notAnonVars == <<lhmVars, pubVars, grothVars, rcptVars, scaleVars, hashVars, addrVars, permVars, loopVars>>
notScaleVars == <<lhmVars, pubVars, grothVars, rcptVars, anonVars, hashVars, addrVars, permVars, loopVars>>
notHashVars == <<lhmVars, pubVars, grothVars, rcptVars, anonVars, scaleVars, addrVars, permVars, loopVars>>
notAddrVars == <<lhmVars, pubVars, grothVars, rcptVars, anonVars, scaleVars, hashVars, permVars, loopVars>>
notPermVars == <<lhmVars, pubVars, grothVars, rcptVars, anonVars, scaleVars, hashVars, addrVars, loopVars>>
notLoopVars == <<lhmVars, pubVars, grothVars, rcptVars, anonVars, scaleVars, hashVars, addrVars, permVars>>

vars == <<lhm_inputs, lhm_arity, lhm_k, lhm_digest, lhm_digest_ext,
          pub_outputs, final_hash, pub_altered, prev_hash,
          raw_proof, raw_vk, pub_input, proof, vk, verification,
          r, pc, correct_account_id, merkle_branch_valid, loop_i, tamper,
          anonset, anonset_type, npubaddrs, anon_called, anonset_hash,
          sc_value, sc_in_dec, sc_out_dec, sc_round_up, sc_token, sc_result, sc_back, sc_snapshot, sc_account,
          ph_input, ph_arity, ph_output,
          ma_address, ma_type, ma_int, ma_regs,
          pw_input, pw_t, pw_RP, pw_M, pw_RC, pw_words, pw_rc, pw_r, pw_pc, pw_out,
          ll_inputs, ll_arity, ll_remaining, ll_hash, ll_iters, ll_pc>>

-----------------------------------------------------------------------------
(* Bounds of the model *)

\* stands for the BN254 scalar modulus p of poseidon_hash.py (a 254-bit prime)
PRIME == 97
\* longest input list handed to linear_hash_many
MaxLen == 5
\* largest arity of linear_hash_many that is enumerated (16 in the source)
MaxArity == 3
\* most zeros appended to an input list
MaxPad == 3
\* bits of one register of int_to_regs (64 in the source)
RegBits == 2
\* number of value assignments tried for the integer fields of a bundle
MaxSeed == 2
\* decimals of a BTC amount (8 in the three precision tables of common.py)
BtcDecimals == 1
\* decimals of an ETH amount of an account or a snapshot (18 in the source)
EthAcctDecimals == 3
\* decimals of an ETH amount inside the proof (7 in the source)
EthProofDecimals == 1
\* bits of one balance inside a packed element (42 in the source)
ACCT_BALANCE_BITS == 4
\* bits of the SHA-512 digest (512) and of the account id cut from it (252)
DigestBits == 10
AccountIdBits == 8

\* Address decoding, scaled: the checksum bytes of a Base58Check address (4),
\* the bytes of its hash (20), the lengths of the two bech32 address forms
\* (42 and 62), the checksum characters of a bech32 address (6), the bits
\* allowed to a one-register address (200) and to a script address (256),
\* and the bits of one register of a script address (128).
B58ChecksumBytes == 1
HashBytes == 1
P2WPKH_LEN == 7
P2WSH_LEN == 9
Bech32ChecksumChars == 1
PubkeyAddrBits == 10
ScriptAddrBits == 16
ScriptRegBits == 8
MaxAnonset == 2

\* Scaling: the largest value and the largest number of decimals tried
MaxValue == 25
MaxDecimals == 3
\* most partial rounds of a permutation, and how far the list of round
\* constants may be off the number the rounds consume
MaxRP == 2
MaxOff == 2
\* most iterations of the absorb loop that are followed
MaxIters == 6
\* most preimages of a Merkle branch

-----------------------------------------------------------------------------
(* Values *)

NONE == << >>
RAISE == <<2>>
\* a raised exception where a list of integers is returned
RAISE_LIST == <<RAISE>>
\* the same two for a variable that holds an object with named fields
NO_OBJECT == [none |-> TRUE]
RAISED == [raised |-> TRUE]

IntV(n) == <<0, n>>
\* Python's True and False are the integers 1 and 0
PyTrue == IntV(1)
PyFalse == IntV(0)
PyBool(cond) == IF cond THEN PyTrue ELSE PyFalse
IsInt(v) == Len(v) = 2 /\ v[1] = 0
IntOf(v) == v[2]
IsHash(v) == Len(v) > 0 /\ v[1] = 1

RECURSIVE Flat(_)
Flat(vs) == IF vs = << >> THEN << >> ELSE Head(vs) \o Flat(Tail(vs))

Zeros(n) == [i \in 1..n |-> IntV(0)]

Min(a, b) == IF a <= b THEN a ELSE b

-----------------------------------------------------------------------------
(* Poseidon *)

\* the first thing perm does to a state word is (word + RC) % p, so two
\* integers congruent modulo p are the same input
ModP(v) == IF IsInt(v) THEN IntV(IntOf(v) % PRIME) ELSE v

perm(input_words, t) ==
    IF Len(input_words) # t THEN RAISE
    ELSE [i \in 1..t |->
            <<1, i - 1, t>> \o Flat([j \in 1..t |-> ModP(input_words[j])])]

\* poseidon_hash with the zero word after the inputs
poseidon_hash_zero_last(input, arity) ==
    IF Len(input) # arity THEN RAISE
    ELSE LET state == input \o <<IntV(0)>>
             output == perm(state, arity + 1)
         IN  IF output = RAISE THEN RAISE ELSE output[1]

poseidon_hash(input, arity) ==
    IF Len(input) # arity THEN RAISE
    ELSE LET state == <<IntV(0)>> \o input
             output == perm(state, arity + 1)
         IN  IF output = RAISE THEN RAISE ELSE output[1]

\* the while loop of linear_hash_many
RECURSIVE lhm_loop(_, _, _)
lhm_loop(current_hash, remaining_inputs, arity) ==
    IF current_hash = RAISE THEN RAISE
    ELSE IF Len(remaining_inputs) > 0
    THEN IF Len(remaining_inputs) <= arity - 1
         THEN LET hash_inputs == <<current_hash>> \o remaining_inputs
                                 \o Zeros(arity - Len(remaining_inputs) - 1)
              IN  lhm_loop(poseidon_hash(hash_inputs, arity), << >>, arity)
         ELSE LET hash_inputs == <<current_hash>>
                                 \o SubSeq(remaining_inputs, 1, arity - 1)
              IN  lhm_loop(poseidon_hash(hash_inputs, arity),
                           SubSeq(remaining_inputs, arity, Len(remaining_inputs)),
                           arity)
    ELSE current_hash

\* linear_hash_many with the first block's last element absorbed a second time
linear_hash_many_reabsorb(inputs, arity) ==
    IF Len(inputs) <= arity
    THEN lhm_loop(poseidon_hash(inputs \o Zeros(arity - Len(inputs)), arity), << >>, arity)
    ELSE lhm_loop(poseidon_hash(SubSeq(inputs, 1, arity), arity),
                  SubSeq(inputs, arity, Len(inputs)), arity)

\* linear_hash_many with a short first block padded by ones instead of zeros
linear_hash_many_onepad(inputs, arity) ==
    IF Len(inputs) <= arity
    THEN lhm_loop(poseidon_hash(inputs \o [i \in 1..(arity - Len(inputs)) |-> IntV(1)], arity),
                  << >>, arity)
    ELSE lhm_loop(poseidon_hash(SubSeq(inputs, 1, arity), arity),
                  SubSeq(inputs, arity + 1, Len(inputs)), arity)

linear_hash_many(inputs, arity) ==
    IF Len(inputs) <= arity
    THEN LET base_hash_inputs == inputs \o Zeros(arity - Len(inputs))
         IN  lhm_loop(poseidon_hash(base_hash_inputs, arity), << >>, arity)
    ELSE LET base_hash_inputs == SubSeq(inputs, 1, arity)
             remaining_inputs == SubSeq(inputs, arity + 1, Len(inputs))
         IN  lhm_loop(poseidon_hash(base_hash_inputs, arity), remaining_inputs, arity)

-----------------------------------------------------------------------------
(* The permutation round by round *)

\* poseidon_consts.py: the tables of the width in use.  They are held in the
\* state, so that the permutation is checked for every table tried and not
\* for one.
get_RP(t) == pw_RP
get_mds(t) == pw_M
get_round_constants(t) == pw_RC

s_box(x) ==
    LET sq == (x * x) % PRIME
        qu == (sq * sq) % PRIME
    IN  (x * qu) % PRIME

RECURSIVE dotprod_loop(_, _, _)
dotprod_loop(row, col, i) ==
    IF i = 0 THEN 0
    ELSE dotprod_loop(row, col, i - 1) + ((row[i] * col[i]) % PRIME)

\* -1 for a failed assert
dotprod(row, col) ==
    IF Len(row) # Len(col) THEN -1
    ELSE dotprod_loop(row, col, Len(row)) % PRIME

\* the product, or << >> for a failed assert
matrix_multiply(M, x) ==
    IF Len(M) = 0 \/ Len(M) # Len(M[1]) THEN << >>
    ELSE IF Len(M) # Len(x) THEN << >>
    ELSE IF \E i \in 1..Len(x) : dotprod(M[i], x) = -1 THEN << >>
    ELSE [i \in 1..Len(x) |-> dotprod(M[i], x)]

Rf == 4

\* the round constants of one round added to the state, or << >> for the
\* IndexError of a list of round constants that is used up
add_round_constants(state_words, RC, rc_counter) ==
    IF rc_counter + Len(state_words) > Len(RC) THEN << >>
    ELSE [i \in 1..Len(state_words) |->
            (state_words[i] + RC[rc_counter + i]) % PRIME]

\* the nonlinear layer of a full round
full_s_box(state_words) ==
    [i \in 1..Len(state_words) |-> s_box(state_words[i])]

\* the nonlinear layer of a partial round, applied to every word
partial_s_box_all(state_words) ==
    [i \in 1..Len(state_words) |-> s_box(state_words[i])]

\* the nonlinear layer of a partial round
partial_s_box(state_words) ==
    [state_words EXCEPT ![1] = s_box(state_words[1])]

-----------------------------------------------------------------------------
(* linear_hash_many applied to bounded inputs *)

RECURSIVE SeqsUpTo(_, _)
SeqsUpTo(S, n) ==
    IF n = 0 THEN {<< >>}
    ELSE LET shorter == SeqsUpTo(S, n - 1)
         IN  shorter \cup {Append(s, x) : s \in {q \in shorter : Len(q) = n - 1}, x \in S}

LhmElems == {IntV(0), IntV(1)}

IdleLhm ==
    /\ lhm_inputs = << >>
    /\ lhm_arity = 0
    /\ lhm_k = 0
    /\ lhm_digest = NONE
    /\ lhm_digest_ext = NONE

IdlePub ==
    /\ pub_outputs = << >>
    /\ final_hash = NONE
    /\ pub_altered = NO_OBJECT
    /\ prev_hash = NONE

IdleGroth ==
    /\ raw_proof = << >>
    /\ raw_vk = << >>
    /\ pub_input = 0
    /\ proof = NO_OBJECT
    /\ vk = NO_OBJECT
    /\ verification = NONE

IdleRcpt ==
    /\ r = NO_OBJECT
    /\ pc = "idle"
    /\ correct_account_id = NONE
    /\ merkle_branch_valid = NONE
    /\ loop_i = 0
    /\ tamper = NO_OBJECT

IdleAnon ==
    /\ anonset = << >>
    /\ anonset_type = 0
    /\ npubaddrs = 0
    /\ anon_called = FALSE
    /\ anonset_hash = NONE

IdleScale ==
    /\ sc_value = 0
    /\ sc_in_dec = 0
    /\ sc_out_dec = 0
    /\ sc_round_up = FALSE
    /\ sc_token = << >>
    /\ sc_result = NONE
    /\ sc_back = NONE
    /\ sc_snapshot = NONE
    /\ sc_account = NONE

IdleHash ==
    /\ ph_input = << >>
    /\ ph_arity = 0
    /\ ph_output = NONE

IdleAddr ==
    /\ ma_address = << >>
    /\ ma_type = 0
    /\ ma_int = NONE
    /\ ma_regs = << >>

IdlePerm ==
    /\ pw_input = << >>
    /\ pw_t = 0
    /\ pw_RP = 0
    /\ pw_M = << >>
    /\ pw_RC = << >>
    /\ pw_words = << >>
    /\ pw_rc = 0
    /\ pw_r = 0
    /\ pw_pc = "idle"
    /\ pw_out = << >>

IdleLoop ==
    /\ ll_inputs = << >>
    /\ ll_arity = 0
    /\ ll_remaining = << >>
    /\ ll_hash = NONE
    /\ ll_iters = 0
    /\ ll_pc = "idle"

InitLhm ==
    /\ IdlePub
    /\ IdleGroth
    /\ IdleRcpt
    /\ IdleAnon
    /\ IdleScale
    /\ IdleHash
    /\ IdleAddr
    /\ IdlePerm
    /\ IdleLoop
    /\ lhm_inputs \in SeqsUpTo(LhmElems, MaxLen)
    /\ lhm_arity \in 2..MaxArity
    /\ lhm_k \in 0..MaxPad
    /\ lhm_digest = NONE
    /\ lhm_digest_ext = NONE

HashInputs ==
    /\ lhm_digest = NONE
    /\ lhm_digest' = linear_hash_many(lhm_inputs, lhm_arity)
    /\ UNCHANGED <<lhm_inputs, lhm_arity, lhm_k, lhm_digest_ext>>
    /\ UNCHANGED notLhmVars

HashExtended ==
    /\ lhm_digest_ext = NONE
    /\ lhm_digest_ext' = linear_hash_many(lhm_inputs \o Zeros(lhm_k), lhm_arity)
    /\ UNCHANGED <<lhm_inputs, lhm_arity, lhm_k, lhm_digest>>
    /\ UNCHANGED notLhmVars

NextLhm == HashInputs \/ HashExtended

SpecLhm == InitLhm /\ [][NextLhm]_vars

-----------------------------------------------------------------------------
(* Decimal text of integers: str() and int() *)

DigitChars == <<"0", "1", "2", "3", "4", "5", "6", "7", "8", "9">>

DigitValue(c) == CHOOSE d \in 0..9 : DigitChars[d + 1] = c

\* str(n) for n >= 0
RECURSIVE IntToStr(_)
IntToStr(n) ==
    IF n < 10 THEN <<DigitChars[n + 1]>>
    ELSE Append(IntToStr(n \div 10), DigitChars[(n % 10) + 1])

\* int(s) for a text of decimal digits
RECURSIVE StrToInt(_)
StrToInt(s) ==
    IF Len(s) = 0 THEN 0
    ELSE 10 * StrToInt(SubSeq(s, 1, Len(s) - 1)) + DigitValue(s[Len(s)])

RECURSIVE Pow(_, _)
Pow(base, e) == IF e = 0 THEN 1 ELSE base * Pow(base, e - 1)

-----------------------------------------------------------------------------
(* Public-output aggregation: verify_public_proof.py *)

\* the loop of int_to_regs: the registers so far and what is left of x
RECURSIVE int_to_regs_loop(_, _, _)
int_to_regs_loop(regs, temp, n) ==
    IF n = 0 THEN <<regs, temp>>
    ELSE int_to_regs_loop(Append(regs, IntToStr(temp % Pow(2, RegBits))),
                          temp \div Pow(2, RegBits), n - 1)

int_to_regs(x) ==
    LET done == int_to_regs_loop(<< >>, x, 4)
    IN  IF done[2] # 0 THEN RAISE ELSE done[1]

hash_liab_pub_outputs_rootfirst(liabilities_pub_outputs) ==
    poseidon_hash(<<IntV(liabilities_pub_outputs.merkle_root),
                    IntV(liabilities_pub_outputs.hashed_vkey_liab_base),
                    IntV(liabilities_pub_outputs.hashed_vkey_liab_rec)>>, 3)

hash_liab_pub_outputs(liabilities_pub_outputs) ==
    LET merkle_root == liabilities_pub_outputs.merkle_root
        hashed_vkey_base == liabilities_pub_outputs.hashed_vkey_liab_base
        hashed_vkey_rec == liabilities_pub_outputs.hashed_vkey_liab_rec
    IN  poseidon_hash(<<IntV(hashed_vkey_base), IntV(hashed_vkey_rec),
                        IntV(merkle_root)>>, 3)

\* f"hashed_vkey_{abase_name}_base"
hashed_vkey_abase_key(abase_name) ==
    CASE abase_name = "eth" -> "hashed_vkey_eth_base"
      [] abase_name = "btc" -> "hashed_vkey_btc_base"
      [] abase_name = "btc_multi3" -> "hashed_vkey_btc_multi3_base"

get_abase_revealed_aggregate_hash(abase_pub_outputs, abase_name) ==
    LET hashed_pub_addrs == abase_pub_outputs["hashed_pub_addrs"]
        min_owned_addr_selector == abase_pub_outputs["min_owned_addr_selector"]
        max_owned_addr_selector == abase_pub_outputs["max_owned_addr_selector"]
        msg_hash == abase_pub_outputs["msg_hash"]
        regs == int_to_regs(msg_hash)
    IN  IF regs = RAISE THEN RAISE
        ELSE LET msg_hash_regs == [i \in 1..Len(regs) |-> StrToInt(regs[i])]
                 hashed_vkey_abase == abase_pub_outputs[hashed_vkey_abase_key(abase_name)]
                 hashed_vkey_anonsetagg == abase_pub_outputs["hashed_vkey_anonsetagg"]
                 poseidon_inputs ==
                     [i \in 1..Len(msg_hash_regs) |-> IntV(msg_hash_regs[i])]
                     \o <<IntV(hashed_pub_addrs)>>
                     \o <<IntV(min_owned_addr_selector)>>
                     \o <<IntV(max_owned_addr_selector)>>
                     \o <<IntV(hashed_vkey_abase)>>
                     \o <<IntV(hashed_vkey_anonsetagg)>>
             IN  IF Len(msg_hash_regs) # 4 THEN RAISE
                 ELSE poseidon_hash(poseidon_inputs, 9)

abase_names == <<"eth", "btc", "btc_multi3">>

hash_asset_pub_outputs(assets_pub_outputs) ==
    LET agg_hashes == [i \in 1..3 |->
            get_abase_revealed_aggregate_hash(
                assets_pub_outputs[abase_names[i]], abase_names[i])]
        dummy_agg_hash == 0
        anonsetagg_vkey_hash == assets_pub_outputs["anonsetagg_vkey_hash"]
        dummy_vkey_hash == assets_pub_outputs["dummy_vkey_hash"]
        poseidon_inputs == <<agg_hashes[1], agg_hashes[2], agg_hashes[3],
                             IntV(dummy_agg_hash),
                             IntV(anonsetagg_vkey_hash),
                             IntV(anonsetagg_vkey_hash),
                             IntV(anonsetagg_vkey_hash),
                             IntV(dummy_vkey_hash)>>
        revealed_agg_hash_assetrec == poseidon_hash(poseidon_inputs, 8)
        hashed_vkey_asset_rec == assets_pub_outputs["assetsrec_vkey_hash"]
    IN  IF \E i \in 1..3 : agg_hashes[i] = RAISE THEN RAISE
        ELSE poseidon_hash(<<revealed_agg_hash_assetrec,
                             IntV(hashed_vkey_asset_rec)>>, 2)

hash_pub_outputs(bundle) ==
    LET liab_hash == hash_liab_pub_outputs(bundle["liabilities"])
        assets_hash == hash_asset_pub_outputs(bundle["assets"])
    IN  IF liab_hash = RAISE \/ assets_hash = RAISE THEN RAISE
        ELSE poseidon_hash(<<assets_hash, liab_hash>>, 2)

\* The bundles tried: every integer field gets its own value (3k + seed for
\* the k-th field), every msg_hash is drawn from MsgHashes.
MsgHashLimit == Pow(2, 4 * RegBits)

MsgHashes == {-1, 0, 1, Pow(2, RegBits), 1 + 2 * Pow(2, RegBits) + 3 * Pow(2, 2 * RegBits),
              MsgHashLimit - 1, MsgHashLimit}

Abase(name, k, seed, msg_hash) ==
    (hashed_vkey_abase_key(name) :> 3 * k + seed) @@
    [hashed_pub_addrs |-> 3 * (k + 1) + seed,
     min_owned_addr_selector |-> 3 * (k + 2) + seed,
     max_owned_addr_selector |-> 3 * (k + 3) + seed,
     msg_hash |-> msg_hash,
     hashed_vkey_anonsetagg |-> 3 * (k + 4) + seed]

Bundle(seed, m1, m2, m3) ==
    [liabilities |-> [merkle_root |-> 3 + seed,
                      hashed_vkey_liab_base |-> 6 + seed,
                      hashed_vkey_liab_rec |-> 9 + seed],
     assets |-> [eth |-> Abase("eth", 4, seed, m1),
                 btc |-> Abase("btc", 9, seed, m2),
                 btc_multi3 |-> Abase("btc_multi3", 14, seed, m3),
                 anonsetagg_vkey_hash |-> 57 + seed,
                 dummy_vkey_hash |-> 60 + seed,
                 assetsrec_vkey_hash |-> 63 + seed]]

InitPub ==
    /\ IdleLhm
    /\ IdleGroth
    /\ IdleRcpt
    /\ IdleAnon
    /\ IdleScale
    /\ IdleHash
    /\ IdleAddr
    /\ IdlePerm
    /\ IdleLoop
    /\ \E seed \in 0..MaxSeed : \E m1 \in MsgHashes, m2 \in MsgHashes, m3 \in MsgHashes :
            pub_outputs = Bundle(seed, m1, m2, m3)
    /\ final_hash = NONE
    /\ pub_altered = NO_OBJECT
    /\ prev_hash = NONE

HashPubOutputs ==
    /\ final_hash = NONE
    /\ final_hash' = hash_pub_outputs(pub_outputs)
    /\ UNCHANGED <<pub_outputs, pub_altered, prev_hash>>
    /\ UNCHANGED notPubVars

\* The integers of a bundle that hash_pub_outputs reads, each by its path.
LiabFields == {"merkle_root", "hashed_vkey_liab_base", "hashed_vkey_liab_rec"}
AssetFields == {"anonsetagg_vkey_hash", "dummy_vkey_hash", "assetsrec_vkey_hash"}
AbaseFields(name) ==
    {"hashed_pub_addrs", "min_owned_addr_selector", "max_owned_addr_selector",
     "msg_hash", "hashed_vkey_anonsetagg", hashed_vkey_abase_key(name)}

IntegerPaths ==
    {<<"liabilities", f>> : f \in LiabFields}
    \cup {<<"assets", f>> : f \in AssetFields}
    \cup UNION {{<<"assets", abase_names[i], f>> : f \in AbaseFields(abase_names[i])}
                : i \in 1..3}

ValueAt(bundle, path) ==
    IF Len(path) = 2 THEN bundle[path[1]][path[2]]
    ELSE bundle[path[1]][path[2]][path[3]]

WithValueAt(bundle, path, value) ==
    IF Len(path) = 2 THEN [bundle EXCEPT ![path[1]][path[2]] = value]
    ELSE [bundle EXCEPT ![path[1]][path[2]][path[3]] = value]

\* a second bundle, equal to a hashed one but for one integer, is hashed
AlterOneInteger ==
    /\ final_hash # NONE
    /\ final_hash # RAISE
    /\ pub_altered = NO_OBJECT
    /\ \E path \in IntegerPaths :
       \E new \in {ValueAt(pub_outputs, path) + 1, ValueAt(pub_outputs, path) + PRIME} :
            /\ pub_outputs' = WithValueAt(pub_outputs, path, new)
            /\ pub_altered' = [path |-> path, old |-> ValueAt(pub_outputs, path),
                               new |-> new]
    /\ prev_hash' = final_hash
    /\ final_hash' = NONE
    /\ UNCHANGED notPubVars

NextPub == HashPubOutputs \/ AlterOneInteger

SpecPub == InitPub /\ [][NextPub]_vars

-----------------------------------------------------------------------------
(* BN254 helpers: utils/bn254_helpers.py over py_ecc                       *)
(*                                                                         *)
(* The curve is scaled down: y^2 = x^3 + 3 over the field of 7 elements    *)
(* has 13 points, a group of prime order generated by (1, 2) as on BN254,  *)
(* and its twist y^2 = x^3 + 3/(9 + u) over the 49-element extension       *)
(* u^2 = -1 has 52 points, 13 of them in the subgroup of order 13.         *)
(* A point is <<x, y>>; py_ecc's point at infinity None is NONE.           *)
(***************************************************************************)

\* stands for P, the BN254 base-field modulus
FIELD_MODULUS == 7
\* stands for snark_scalar_field, the order of G1, G2 and the pairing's target
snark_scalar_field == 13

\* py_ecc's FQ(n) and FQ2(coeffs): the integers are reduced modulo the field
FQ(n) == n % FIELD_MODULUS
FQ2(c) == <<FQ(c[1]), FQ(c[2])>>

fq_inv(a) == CHOOSE z \in 0..(FIELD_MODULUS - 1) : (a * z) % FIELD_MODULUS = 1
fq_div(a, c) == (a * fq_inv(c)) % FIELD_MODULUS

fq2_add(a, c) == <<(a[1] + c[1]) % FIELD_MODULUS, (a[2] + c[2]) % FIELD_MODULUS>>
fq2_sub(a, c) == <<(a[1] - c[1]) % FIELD_MODULUS, (a[2] - c[2]) % FIELD_MODULUS>>
fq2_mul(a, c) == <<(a[1] * c[1] - a[2] * c[2]) % FIELD_MODULUS,
                   (a[1] * c[2] + a[2] * c[1]) % FIELD_MODULUS>>
fq2_inv(a) ==
    CHOOSE z \in (0..(FIELD_MODULUS - 1)) \X (0..(FIELD_MODULUS - 1)) :
        fq2_mul(a, z) = <<1, 0>>
fq2_div(a, c) == fq2_mul(a, fq2_inv(c))

\* b = FQ(3) and b2 = FQ2([3, 0]) / FQ2([9, 1])
b == FQ(3)
b2 == fq2_div(FQ2(<<3, 0>>), FQ2(<<9, 1>>))

on_curve_check(pt, b_coeff) ==
    IF pt = NONE THEN TRUE
    ELSE (pt[2] * pt[2] - pt[1] * pt[1] * pt[1]) % FIELD_MODULUS = b_coeff

on_curve_check2(pt, b_coeff) ==
    IF pt = NONE THEN TRUE
    ELSE fq2_sub(fq2_mul(pt[2], pt[2]), fq2_mul(fq2_mul(pt[1], pt[1]), pt[1])) = b_coeff

\* G1Point(point) without the coordinates reduced by FQ
G1Point_unreduced(point) ==
    IF point = NONE THEN RAISE
    ELSE IF point[1] \notin 0..(FIELD_MODULUS - 1) \/ point[2] \notin 0..(FIELD_MODULUS - 1)
         THEN RAISE
         ELSE IF on_curve_check(point, b) THEN point ELSE RAISE

\* G1Point(point): subscripting None is a TypeError, a failed assert an
\* AssertionError
G1Point(point) ==
    IF point = NONE THEN RAISE
    ELSE LET self_point == <<FQ(point[1]), FQ(point[2])>>
         IN  IF on_curve_check(self_point, b) THEN self_point ELSE RAISE

G2Point(point) ==
    IF point = NONE THEN RAISE
    ELSE LET self_point == <<FQ2(point[1]), FQ2(point[2])>>
         IN  IF on_curve_check2(self_point, b2) THEN self_point ELSE RAISE

\* py_ecc bn128_curve: neg, double, add, multiply
curve_neg(pt) == IF pt = NONE THEN NONE ELSE <<pt[1], (0 - pt[2]) % FIELD_MODULUS>>

curve_double(pt) ==
    LET x == pt[1]
        y == pt[2]
        m == fq_div((3 * x * x) % FIELD_MODULUS, (2 * y) % FIELD_MODULUS)
        newx == (m * m - 2 * x) % FIELD_MODULUS
        newy == ((0 - m) * newx + m * x - y) % FIELD_MODULUS
    IN  <<newx, newy>>

curve_add(p1, p2) ==
    IF p1 = NONE \/ p2 = NONE THEN (IF p1 = NONE THEN p2 ELSE p1)
    ELSE LET x1 == p1[1]
             y1 == p1[2]
             x2 == p2[1]
             y2 == p2[2]
         IN  IF x2 = x1 /\ y2 = y1 THEN curve_double(p1)
             ELSE IF x2 = x1 THEN NONE
             ELSE LET m == fq_div((y2 - y1) % FIELD_MODULUS, (x2 - x1) % FIELD_MODULUS)
                      newx == (m * m - x1 - x2) % FIELD_MODULUS
                      newy == ((0 - m) * newx + m * x1 - y1) % FIELD_MODULUS
                  IN  <<newx, newy>>

RECURSIVE curve_multiply(_, _)
curve_multiply(pt, n) ==
    IF n = 0 THEN NONE
    ELSE IF n = 1 THEN pt
    ELSE IF n % 2 = 0 THEN curve_multiply(curve_double(pt), n \div 2)
    ELSE curve_add(curve_multiply(curve_double(pt), n \div 2), pt)

negate_g1(p1) == G1Point(curve_neg(p1))
add_g1(p1, p2) == G1Point(curve_add(p1, p2))
scalar_mult_g1(scalar, p1) == G1Point(curve_multiply(p1, scalar))

\* The same group law on the twist, used only to tabulate the subgroup G2
curve_double2(pt) ==
    LET x == pt[1]
        y == pt[2]
        m == fq2_div(fq2_mul(<<3, 0>>, fq2_mul(x, x)), fq2_mul(<<2, 0>>, y))
        newx == fq2_sub(fq2_mul(m, m), fq2_mul(<<2, 0>>, x))
        newy == fq2_sub(fq2_mul(m, fq2_sub(x, newx)), y)
    IN  <<newx, newy>>

curve_add2(p1, p2) ==
    IF p1 = NONE \/ p2 = NONE THEN (IF p1 = NONE THEN p2 ELSE p1)
    ELSE IF p2[1] = p1[1] /\ p2[2] = p1[2] THEN curve_double2(p1)
    ELSE IF p2[1] = p1[1] THEN NONE
    ELSE LET m == fq2_div(fq2_sub(p2[2], p1[2]), fq2_sub(p2[1], p1[1]))
             newx == fq2_sub(fq2_sub(fq2_mul(m, m), p1[1]), p2[1])
             newy == fq2_sub(fq2_mul(m, fq2_sub(p1[1], newx)), p1[2])
         IN  <<newx, newy>>

\* generators of the two groups of order snark_scalar_field
G1Gen == <<1, 2>>
G2Gen == <<<<1, 2>>, <<3, 4>>>>

RECURSIVE G1Times(_)
G1Times(k) == IF k = 0 THEN NONE ELSE curve_add(G1Times(k - 1), G1Gen)
RECURSIVE G2Times(_)
G2Times(k) == IF k = 0 THEN NONE ELSE curve_add2(G2Times(k - 1), G2Gen)

G1Table == [k \in 0..(snark_scalar_field - 1) |-> G1Times(k)]
G2Table == [k \in 0..(snark_scalar_field - 1) |-> G2Times(k)]

DLog1(pt) == CHOOSE k \in 0..(snark_scalar_field - 1) : G1Table[k] = pt
DLog2(pt) == CHOOSE k \in 0..(snark_scalar_field - 1) : G2Table[k] = pt

\* pairing.pairing(p2, p1) as an abstract bilinear map: the target group is
\* written additively, e(k1 G1, k2 G2) = k1 k2 and FQ12.one() = 0
pairing_help(p1, p2) == (DLog1(p1) * DLog2(p2)) % snark_scalar_field

RECURSIVE pairing_product(_, _)
pairing_product(results, i) ==
    IF i = 1 THEN results[1]
    ELSE (pairing_product(results, i - 1) + results[i]) % snark_scalar_field

pairings_help(p1, p2) ==
    IF Len(p1) # Len(p2) THEN RAISE
    ELSE LET results == [i \in 1..Len(p1) |-> pairing_help(p1[i], p2[i])]
             result == pairing_product(results, Len(results))
         IN  PyBool(result = 0)

-----------------------------------------------------------------------------
(* Groth16 verification: verify_proof.py *)

\* verify with the proof's A paired as it is (the commented-out line of verify)
verify_unnegated(input, pf, key) ==
    IF ~(input < snark_scalar_field) THEN RAISE
    ELSE LET temp2 == scalar_mult_g1(input, key.IC1)
             vk_x == IF temp2 = RAISE THEN RAISE ELSE add_g1(key.IC0, temp2)
         IN  IF vk_x = RAISE THEN RAISE
             ELSE pairings_help(<<pf.A, key.alpha1, vk_x, pf.C>>,
                                <<pf.B, key.beta2, key.gamma2, key.delta2>>)

verify(input, pf, key) ==
    IF ~(input < snark_scalar_field) THEN RAISE
    ELSE LET temp1 == key.IC0
             temp2 == scalar_mult_g1(input, key.IC1)
             vk_x == IF temp2 = RAISE THEN RAISE ELSE add_g1(temp1, temp2)
             negA == negate_g1(pf.A)
         IN  IF vk_x = RAISE \/ negA = RAISE THEN RAISE
             ELSE LET p1s == <<negA, key.alpha1, vk_x, pf.C>>
                      p2s == <<pf.B, key.beta2, key.gamma2, key.delta2>>
                  IN  pairings_help(p1s, p2s)

raw_to_G1(raw) ==
    IF Len(raw) # 2 THEN RAISE
    ELSE LET converted == <<StrToInt(raw[1]), StrToInt(raw[2])>>
         IN  G1Point(converted)

raw_to_G2(raw) ==
    IF Len(raw) # 2 \/ Len(raw[1]) # 2 \/ Len(raw[2]) # 2 THEN RAISE
    ELSE LET converted == [i \in 1..2 |-> <<StrToInt(raw[i][2]), StrToInt(raw[i][1])>>]
         IN  G2Point(converted)

parse_proof(proof_dict) ==
    LET a == raw_to_G1(proof_dict.pi_a)
        b_pt == raw_to_G2(proof_dict.pi_b)
        c == raw_to_G1(proof_dict.pi_c)
    IN  IF a = RAISE \/ b_pt = RAISE \/ c = RAISE THEN RAISED
        ELSE [A |-> a, B |-> b_pt, C |-> c]

parse_vk(vk_dict) ==
    LET alpha1 == raw_to_G1(vk_dict.vk_alpha_1)
        beta2 == raw_to_G2(vk_dict.vk_beta_2)
        gamma2 == raw_to_G2(vk_dict.vk_gamma_2)
        delta2 == raw_to_G2(vk_dict.vk_delta_2)
        ic0 == raw_to_G1(vk_dict.IC[1])
        ic1 == raw_to_G1(vk_dict.IC[2])
    IN  IF RAISE \in {alpha1, beta2, gamma2, delta2, ic0, ic1} THEN RAISED
        ELSE [alpha1 |-> alpha1, beta2 |-> beta2, gamma2 |-> gamma2,
              delta2 |-> delta2, IC0 |-> ic0, IC1 |-> ic1]

\* The inputs tried: one verifying key, the proofs (a G1, b G2, c G1) for the
\* scalars below, the public inputs 0, 1, 2, the one that makes vk_x the
\* point at infinity, r - 1 and r, and one way of spoiling a coordinate.
RawG1(pt) == <<IntToStr(pt[1]), IntToStr(pt[2])>>
\* the JSON stores the two coefficients of an Fp2 element as [c1, c0]
RawG2(pt) == [i \in 1..2 |-> <<IntToStr(pt[i][2]), IntToStr(pt[i][1])>>]

KeyScalars == [alpha1 |-> 2, beta2 |-> 3, gamma2 |-> 7, delta2 |-> 4, IC0 |-> 5, IC1 |-> 6]

RawKey == [vk_alpha_1 |-> RawG1(G1Table[KeyScalars.alpha1]),
           vk_beta_2 |-> RawG2(G2Table[KeyScalars.beta2]),
           vk_gamma_2 |-> RawG2(G2Table[KeyScalars.gamma2]),
           vk_delta_2 |-> RawG2(G2Table[KeyScalars.delta2]),
           IC |-> <<RawG1(G1Table[KeyScalars.IC0]), RawG1(G1Table[KeyScalars.IC1])>>]

ProofScalarsA == {1, 2, 5, 12}
ProofScalarsB == {1, 3}
ProofScalarsC == 1..(snark_scalar_field - 1)
PubInputs == {0, 1, 2, 10, snark_scalar_field - 1, snark_scalar_field}

Spoilings == {"none", "a_x_plus_p", "a_y_plus_one", "b_x0_plus_p", "b_y0_plus_one",
              "c_y_plus_p", "alpha_y_plus_one", "gamma_x1_plus_p"}

SpoilG1(pt, how) ==
    CASE how = "x_plus_p" -> <<pt[1] + FIELD_MODULUS, pt[2]>>
      [] how = "y_plus_p" -> <<pt[1], pt[2] + FIELD_MODULUS>>
      [] how = "y_plus_one" -> <<pt[1], (pt[2] + 1) % FIELD_MODULUS>>

SpoilG2(pt, how) ==
    CASE how = "x0_plus_p" -> <<<<pt[1][1] + FIELD_MODULUS, pt[1][2]>>, pt[2]>>
      [] how = "x1_plus_p" -> <<<<pt[1][1], pt[1][2] + FIELD_MODULUS>>, pt[2]>>
      [] how = "y0_plus_one" -> <<pt[1], <<(pt[2][1] + 1) % FIELD_MODULUS, pt[2][2]>>>>

RawProofFor(a, bs, c, spoil) ==
    [pi_a |-> RawG1(CASE spoil = "a_x_plus_p" -> SpoilG1(G1Table[a], "x_plus_p")
                      [] spoil = "a_y_plus_one" -> SpoilG1(G1Table[a], "y_plus_one")
                      [] OTHER -> G1Table[a]),
     pi_b |-> RawG2(CASE spoil = "b_x0_plus_p" -> SpoilG2(G2Table[bs], "x0_plus_p")
                      [] spoil = "b_y0_plus_one" -> SpoilG2(G2Table[bs], "y0_plus_one")
                      [] OTHER -> G2Table[bs]),
     pi_c |-> RawG1(CASE spoil = "c_y_plus_p" -> SpoilG1(G1Table[c], "y_plus_p")
                      [] OTHER -> G1Table[c])]

RawKeyFor(spoil) ==
    CASE spoil = "alpha_y_plus_one" ->
            [RawKey EXCEPT !.vk_alpha_1 =
                RawG1(SpoilG1(G1Table[KeyScalars.alpha1], "y_plus_one"))]
      [] spoil = "gamma_x1_plus_p" ->
            [RawKey EXCEPT !.vk_gamma_2 =
                RawG2(SpoilG2(G2Table[KeyScalars.gamma2], "x1_plus_p"))]
      [] OTHER -> RawKey

InitGroth ==
    /\ IdleLhm
    /\ IdlePub
    /\ IdleRcpt
    /\ IdleAnon
    /\ IdleScale
    /\ IdleHash
    /\ IdleAddr
    /\ IdlePerm
    /\ IdleLoop
    /\ \E a \in ProofScalarsA, bs \in ProofScalarsB, c \in ProofScalarsC, spoil \in Spoilings :
            /\ raw_proof = RawProofFor(a, bs, c, spoil)
            /\ raw_vk = RawKeyFor(spoil)
    /\ pub_input \in PubInputs
    /\ proof = NO_OBJECT
    /\ vk = NO_OBJECT
    /\ verification = NONE

ParseProof ==
    /\ proof = NO_OBJECT
    /\ proof' = parse_proof(raw_proof)
    /\ UNCHANGED <<raw_proof, raw_vk, pub_input, vk, verification>>
    /\ UNCHANGED notGrothVars

ParseVk ==
    /\ vk = NO_OBJECT
    /\ vk' = parse_vk(raw_vk)
    /\ UNCHANGED <<raw_proof, raw_vk, pub_input, proof, verification>>
    /\ UNCHANGED notGrothVars

Verify ==
    /\ proof \notin {NO_OBJECT, RAISED}
    /\ vk \notin {NO_OBJECT, RAISED}
    /\ verification = NONE
    /\ verification' = verify(pub_input, proof, vk)
    /\ UNCHANGED <<raw_proof, raw_vk, pub_input, proof, vk>>
    /\ UNCHANGED notGrothVars

NextGroth == ParseProof \/ ParseVk \/ Verify

SpecGroth == InitGroth /\ [][NextGroth]_vars

-----------------------------------------------------------------------------
(* Text: hex(), bin(), int(s, base), upper(), slices *)

HexChars == <<"0", "1", "2", "3", "4", "5", "6", "7", "8", "9",
              "a", "b", "c", "d", "e", "f">>
HexCharsUpper == <<"0", "1", "2", "3", "4", "5", "6", "7", "8", "9",
                   "A", "B", "C", "D", "E", "F">>
LowerLetters == <<"a", "b", "c", "d", "e", "f", "g", "h", "i", "j", "k", "l", "m",
                  "n", "o", "p", "q", "r", "s", "t", "u", "v", "w", "x", "y", "z">>
UpperLetters == <<"A", "B", "C", "D", "E", "F", "G", "H", "I", "J", "K", "L", "M",
                  "N", "O", "P", "Q", "R", "S", "T", "U", "V", "W", "X", "Y", "Z">>

\* the digits of n >= 0 in a base up to 16, without leading zeros
RECURSIVE ToBase(_, _)
ToBase(n, base) ==
    IF n < base THEN <<HexChars[n + 1]>>
    ELSE Append(ToBase(n \div base, base), HexChars[(n % base) + 1])

\* hex(n) and bin(n)[2:] for n >= 0
hex(n) == <<"0", "x">> \o ToBase(n, 16)
bin_digits(n) == ToBase(n, 2)

IsDigitOf(c, base) ==
    \E d \in 1..base : HexChars[d] = c \/ HexCharsUpper[d] = c
DigitOf(c) == (CHOOSE d \in 1..16 : HexChars[d] = c \/ HexCharsUpper[d] = c) - 1

RECURSIVE FromBase(_, _)
FromBase(s, base) ==
    IF Len(s) = 0 THEN 0
    ELSE base * FromBase(SubSeq(s, 1, Len(s) - 1), base) + DigitOf(s[Len(s)])

\* int(s, base) for base 2, 10 or 16: an optional sign, for base 16 an
\* optional 0x or 0X, then digits of the base; anything else is a ValueError
py_int(s, base) ==
    LET negative == Len(s) > 0 /\ s[1] = "-"
        unsigned == IF negative THEN Tail(s) ELSE s
        prefixed == base = 16 /\ Len(unsigned) >= 2 /\ unsigned[1] = "0"
                    /\ unsigned[2] \in {"x", "X"}
        digits == IF prefixed THEN SubSeq(unsigned, 3, Len(unsigned)) ELSE unsigned
    IN  IF Len(digits) = 0 \/ \E i \in 1..Len(digits) : ~IsDigitOf(digits[i], base)
        THEN RAISE
        ELSE IntV((IF negative THEN -1 ELSE 1) * FromBase(digits, base))

upper(s) ==
    [i \in 1..Len(s) |->
        IF \E k \in 1..26 : LowerLetters[k] = s[i]
        THEN UpperLetters[CHOOSE k \in 1..26 : LowerLetters[k] = s[i]]
        ELSE s[i]]

\* s[:i] and s[i:] with Python's negative and out-of-range indices
SliceIndex(s, i) ==
    IF i < 0 THEN (IF Len(s) + i < 0 THEN 0 ELSE Len(s) + i)
    ELSE Min(i, Len(s))
slice_to(s, i) == SubSeq(s, 1, SliceIndex(s, i))
slice_from(s, i) == SubSeq(s, SliceIndex(s, i) + 1, Len(s))

-----------------------------------------------------------------------------
(* Tokens, precisions and scaling: utils/common.py and utils/scaling.py *)

BALANCE_DIMENSION == 18
BITCOIN_TOKEN == <<"B", "T", "C">>
ETHER_TOKEN == <<"E", "T", "H">>
SUPPORTED_TOKENS == <<BITCOIN_TOKEN, ETHER_TOKEN>>

get_balance_orders ==
    SUPPORTED_TOKENS \o
    [i \in 1..(BALANCE_DIMENSION - Len(SUPPORTED_TOKENS)) |->
        <<"U", "n", "s", "u", "p", "p", "o", "r", "t", "e", "d", "-",
          "I", "n", "d", "e", "x", "-">> \o IntToStr(i - 1)]

\* The three precision tables of utils/common.py (8/18, 8/7 and 8/18
\* decimals for BTC/ETH), with the decimals scaled.  utils/scaling.py
\* imports tables of the same names from utils.consts; they are taken to
\* be these.
ACCT_PRECISION_DICT == (BITCOIN_TOKEN :> BtcDecimals) @@ (ETHER_TOKEN :> EthAcctDecimals)
PROOF_PRECISION_DICT == (BITCOIN_TOKEN :> BtcDecimals) @@ (ETHER_TOKEN :> EthProofDecimals)
SNAPSHOT_PRECISION_DICT == (BITCOIN_TOKEN :> BtcDecimals) @@ (ETHER_TOKEN :> EthAcctDecimals)

\* scale_units that never rounds up
scale_units_floor(value, input_decimals, output_decimals, round_up) ==
    IF value < 0 THEN RAISE
    ELSE IF output_decimals - input_decimals >= 0
    THEN IntV(value * Pow(10, output_decimals - input_decimals))
    ELSE IntV(value \div Pow(10, input_decimals - output_decimals))

\* scale_units that adds one whenever it scales down and round_up is set
scale_units_round_always(value, input_decimals, output_decimals, round_up) ==
    IF value < 0 THEN RAISE
    ELSE IF output_decimals - input_decimals >= 0
    THEN IntV(value * Pow(10, output_decimals - input_decimals))
    ELSE IntV(value \div Pow(10, input_decimals - output_decimals)
              + (IF round_up THEN 1 ELSE 0))

scale_units(value, input_decimals, output_decimals, round_up) ==
    IF value < 0 THEN RAISE
    ELSE LET precision_diff == output_decimals - input_decimals
         IN  IF precision_diff >= 0
             THEN IntV(value * Pow(10, precision_diff))
             ELSE LET abs_diff == 0 - precision_diff
                      new_value == value \div Pow(10, abs_diff)
                  IN  IF round_up /\ new_value * Pow(10, abs_diff) # value
                      THEN IntV(new_value + 1)
                      ELSE IntV(new_value)

snapshot_precision_to_proof_precision(which_token, value) ==
    IF which_token \notin DOMAIN SNAPSHOT_PRECISION_DICT
       \/ which_token \notin DOMAIN PROOF_PRECISION_DICT
    THEN IntV(value)
    ELSE scale_units(value, SNAPSHOT_PRECISION_DICT[which_token],
                     PROOF_PRECISION_DICT[which_token], TRUE)

account_precision_to_proof_precision(which_token, value) ==
    IF which_token \notin DOMAIN ACCT_PRECISION_DICT
       \/ which_token \notin DOMAIN PROOF_PRECISION_DICT
    THEN IntV(value)
    ELSE scale_units(value, ACCT_PRECISION_DICT[which_token],
                     PROOF_PRECISION_DICT[which_token], TRUE)

RECURSIVE split_into_chunks_loop(_, _, _, _)
split_into_chunks_loop(all_elts, chunk_size, start_idx, res) ==
    IF start_idx < Len(all_elts)
    THEN LET end_idx == start_idx + chunk_size
             curr_chunk == IF end_idx > Len(all_elts)
                           THEN SubSeq(all_elts, start_idx + 1, Len(all_elts))
                           ELSE SubSeq(all_elts, start_idx + 1, end_idx)
         IN  split_into_chunks_loop(all_elts, chunk_size, start_idx + chunk_size,
                                    Append(res, curr_chunk))
    ELSE res

\* split_into_chunks(all_elts, chunk_size) with fill_empty = None
split_into_chunks(all_elts, chunk_size) ==
    split_into_chunks_loop(all_elts, chunk_size, 0, << >>)

\* int_to_bin(x_int, expected_length)
int_to_bin(x_int, expected_length) ==
    LET x_bin == bin_digits(x_int)
        padded_zeros == expected_length - Len(x_bin)
    IN  IF padded_zeros < 0 THEN RAISE
        ELSE [i \in 1..padded_zeros |-> "0"] \o x_bin

-----------------------------------------------------------------------------
(* Receipt verification: verify_receipt.py *)

ACCT_BALANCES_PER_ELT == 6

\* int(hashlib.sha512(str.encode(x)).hexdigest(), 16): an uninterpreted
\* function whose leading AccountIdBits bits differ for the texts hashed here
Sha512Texts == <<<<"u", "1">>, <<"u", "2">>, <<"u", "3">>>>
Sha512Lead == <<26, 43, 171>>

sha512_int(x) ==
    LET k == CHOOSE k \in 1..Len(Sha512Texts) : Sha512Texts[k] = x
    IN  Sha512Lead[k] * Pow(2, DigestBits - AccountIdBits)
        + (k % Pow(2, DigestBits - AccountIdBits))

unformat_balance_value_from_receipt(token, balance_str) ==
    IF upper(token) # upper(BITCOIN_TOKEN) /\ upper(token) # upper(ETHER_TOKEN)
    THEN RAISE
    ELSE LET num_decimal_places ==
                 IF upper(token) = upper(BITCOIN_TOKEN)
                 THEN ACCT_PRECISION_DICT[BITCOIN_TOKEN]
                 ELSE ACCT_PRECISION_DICT[ETHER_TOKEN]
             decimal_idx == Len(balance_str) - num_decimal_places - 1
         IN  IF decimal_idx >= Len(balance_str) \/ decimal_idx < 0 - Len(balance_str)
             THEN RAISE
             ELSE IF balance_str[(IF decimal_idx < 0 THEN Len(balance_str) + decimal_idx
                                  ELSE decimal_idx) + 1] # "."
             THEN RAISE
             ELSE py_int(slice_to(balance_str, decimal_idx)
                         \o slice_from(balance_str, decimal_idx + 1), 10)

_calculate_account_id(username, nonce) ==
    LET x == username \o nonce
        full_bin_str == int_to_bin(sha512_int(x), DigestBits)
    IN  IF full_bin_str = RAISE THEN RAISE
        ELSE py_int(slice_to(full_bin_str, AccountIdBits), 2)

RECURSIVE _pack_balance_loop(_, _, _, _)
_pack_balance_loop(chunk, i, mult, acc) ==
    IF i > Len(chunk) THEN acc
    ELSE _pack_balance_loop(chunk, i + 1, mult * Pow(2, ACCT_BALANCE_BITS),
                            acc + mult * chunk[i])

\* _pack_balance with the multiplier never shifted
_pack_balance_sum(chunk) ==
    LET RECURSIVE total(_)
        total(i) == IF i = 0 THEN 0 ELSE total(i - 1) + chunk[i]
    IN  total(Len(chunk))

_pack_balance(chunk) == _pack_balance_loop(chunk, 1, 1, 0)

get_account_info_packed(account_id, balances) ==
    LET chunks == split_into_chunks(balances, ACCT_BALANCES_PER_ELT)
    IN  <<IntV(account_id)>> \o [k \in 1..Len(chunks) |-> IntV(_pack_balance(chunks[k]))]

\* the loop that fills balance_map (lines 110-112): <<raised, map>>
RECURSIVE balance_map_loop(_, _, _)
balance_map_loop(entries, i, map) ==
    IF i > Len(entries) THEN <<FALSE, map>>
    ELSE LET value == unformat_balance_value_from_receipt(entries[i].token,
                                                           entries[i].balance)
         IN  IF value = RAISE THEN <<TRUE, map>>
             ELSE balance_map_loop(entries, i + 1,
                                   (entries[i].token :> IntOf(value)) @@ map)

\* lines 118-127: the proof-precision balances in the order of balance_orders,
\* or RAISE
receipt_balances_of(receipt, balance_orders) ==
    LET built == balance_map_loop(receipt.balances, 1, << >>)
        balance_map == built[2]
        receipt_raw_balances ==
            [j \in 1..Len(balance_orders) |->
                IF balance_orders[j] \in DOMAIN balance_map
                THEN balance_map[balance_orders[j]] ELSE 0]
        scaled == [j \in 1..Len(balance_orders) |->
                     IF receipt_raw_balances[j] = 0 THEN IntV(0)
                     ELSE account_precision_to_proof_precision(
                              balance_orders[j], receipt_raw_balances[j])]
    IN  IF built[1] \/ \E j \in 1..Len(scaled) : scaled[j] = RAISE THEN RAISE
        ELSE [j \in 1..Len(scaled) |-> IntOf(scaled[j])]

\* merkle_branch_valid &= cond
and_valid(valid, cond) == PyBool(valid = PyTrue /\ cond)

SeqElems(q) == {q[i] : i \in 1..Len(q)}

\* step 2c with the flag overwritten by the latest membership test
step2c_valid_overwrite(valid, curr_hash, next_preimage_list) ==
    PyBool(curr_hash \in SeqElems(next_preimage_list))

\* lines 155-156: if curr_hash not in next_preimage_list: valid = False
step2c_valid(valid, curr_hash, next_preimage_list) ==
    IF curr_hash \notin SeqElems(next_preimage_list) THEN PyFalse ELSE valid

\* lines 95-97: correct_account_id, or RAISE
step1(receipt) ==
    LET id == _calculate_account_id(receipt.username, receipt.nonce)
    IN  IF id = RAISE THEN RAISE
        ELSE LET expected_account_id == hex(IntOf(id))
             IN  PyBool(expected_account_id = receipt.account_id)

\* step 2a comparing only the account id of the leaf preimage
step2a_account_only(receipt) ==
    LET merkle_preimages == receipt.merkle_branch
        receipt_account_id == py_int(receipt.account_id, 16)
        receipt_balances == receipt_balances_of(receipt, get_balance_orders)
    IN  IF receipt_account_id = RAISE \/ receipt_balances = RAISE THEN RAISE
        ELSE and_valid(PyTrue, receipt_account_id = merkle_preimages[1][1])

\* lines 105-130: merkle_branch_valid after step 2a, or RAISE
step2a(receipt) ==
    LET merkle_preimages == receipt.merkle_branch
        receipt_account_id == py_int(receipt.account_id, 16)
        receipt_balances == receipt_balances_of(receipt, get_balance_orders)
    IN  IF receipt_account_id = RAISE \/ receipt_balances = RAISE THEN RAISE
        ELSE and_valid(PyTrue,
                 get_account_info_packed(IntOf(receipt_account_id), receipt_balances)
                     = merkle_preimages[1])

\* lines 140-141: merkle_branch_valid after step 2b, or RAISE
step2b(receipt, valid) ==
    LET merkle_preimages == receipt.merkle_branch
        top_hash == poseidon_hash(merkle_preimages[Len(merkle_preimages)],
                                  receipt.merkle_arity)
    IN  IF top_hash = RAISE THEN RAISE
        ELSE and_valid(valid, top_hash = receipt.merkle_root)

\* lines 150-156: merkle_branch_valid after iteration i of step 2c, or RAISE
step2c(receipt, valid, i) ==
    LET merkle_preimages == receipt.merkle_branch
        arity == IF i = 0 THEN receipt.merkle_leaf_hash_arity ELSE receipt.merkle_arity
        curr_hash == poseidon_hash(merkle_preimages[i + 1], arity)
        next_preimage_list == merkle_preimages[i + 2]
    IN  IF curr_hash = RAISE THEN RAISE
        ELSE step2c_valid(valid, curr_hash, next_preimage_list)

\* The receipts tried.  A receipt is written for the user "u" and a nonce,
\* with one list of balances and a Merkle branch of one to three preimages
\* built over its packed leaf; its account id is written in one of five
\* forms and one part of the branch may be spoiled.
Nonces == {<<"1">>, <<"2">>}
OtherNonces == Nonces \cup {<<"3">>}
Username == <<"u">>

\* an amount of `units` smallest units written with `decimals` decimals
RECURSIVE ZeroPadded(_, _)
ZeroPadded(s, n) == IF Len(s) >= n THEN s ELSE ZeroPadded(<<"0">> \o s, n)
BalanceText(units, decimals) ==
    IntToStr(units \div Pow(10, decimals)) \o <<".">>
    \o ZeroPadded(IntToStr(units % Pow(10, decimals)), decimals)

Btc(units) == [token |-> BITCOIN_TOKEN, balance |-> BalanceText(units, BtcDecimals)]
Eth(units) == [token |-> ETHER_TOKEN, balance |-> BalanceText(units, EthAcctDecimals)]
OneBtc == Pow(10, BtcDecimals)
OneEth == Pow(10, EthAcctDecimals)

BalanceLists ==
    { <<Btc(OneBtc), Eth(OneEth)>>,
      <<Btc(1), Eth(1)>>,
      <<Eth(OneEth + 11), Btc(OneBtc + 1)>>,
      <<Btc(OneBtc), Btc(1)>>,
      <<[token |-> <<"b", "t", "c">>, balance |-> BalanceText(OneBtc, BtcDecimals)],
        Eth(OneEth \div 10)>>,
      << >>,
      <<Btc(0)>>,
      <<Btc(Pow(2, ACCT_BALANCE_BITS) + 1), Eth(0)>> }

AccountIdForms == {"canonical", "no_prefix", "upper_case", "leading_zero", "other_value"}

ExpectedId(nonce) == sha512_int(Username \o nonce) \div Pow(2, DigestBits - AccountIdBits)

AccountIdText(nonce, form) ==
    LET digits == ToBase(ExpectedId(nonce), 16)
    IN  CASE form = "canonical" -> <<"0", "x">> \o digits
          [] form = "no_prefix" -> digits
          [] form = "upper_case" -> <<"0", "x">> \o upper(digits)
          [] form = "leading_zero" -> <<"0", "x", "0">> \o digits
          [] form = "other_value" -> <<"0", "x">> \o ToBase(ExpectedId(nonce) + 1, 16)

LeafFor(account_id, balances) ==
    get_account_info_packed(IntOf(py_int(account_id, 16)),
                            receipt_balances_of([balances |-> balances], get_balance_orders))

BranchShapes == {"one", "two", "three", "twin"}

\* <<merkle_branch, merkle_arity, merkle_root>> of an honest tree over leaf
HonestBranch(leaf, shape) ==
    LET leaf_hash == poseidon_hash(leaf, Len(leaf))
        level1 == <<leaf_hash, IntV(5)>>
        twin1 == <<leaf_hash, IntV(6)>>
        level2 == IF shape = "twin"
                  THEN <<poseidon_hash(twin1, 2), poseidon_hash(level1, 2)>>
                  ELSE <<IntV(7), poseidon_hash(level1, 2)>>
    IN  CASE shape = "one" -> <<<<leaf>>, Len(leaf), leaf_hash>>
          [] shape = "two" -> <<<<leaf, level1>>, 2, poseidon_hash(level1, 2)>>
          [] OTHER -> <<<<leaf, level1, level2>>, 2, poseidon_hash(level2, 2)>>

Spoils == {"none", "root", "leaf_entry", "child_hash", "sibling", "short_last",
           "long_leaf", "leaf_arity"}

Spoiled(receipt, spoil) ==
    LET branch == receipt.merkle_branch
        n == Len(branch)
    IN  CASE spoil = "root" -> [receipt EXCEPT !.merkle_root = IntV(0)]
          [] spoil = "leaf_entry" ->
                [receipt EXCEPT !.merkle_branch[1][2] = IntV(IntOf(@) + 1)]
          [] spoil = "child_hash" /\ n >= 2 ->
                [receipt EXCEPT !.merkle_branch[2][1] = IntV(8)]
          [] spoil = "sibling" /\ n >= 2 ->
                [receipt EXCEPT !.merkle_branch[2][2] = IntV(9)]
          [] spoil = "short_last" ->
                [receipt EXCEPT !.merkle_branch[n] = SubSeq(@, 1, Len(@) - 1)]
          [] spoil = "long_leaf" ->
                [receipt EXCEPT !.merkle_branch[1] = Append(@, IntV(0))]
          [] spoil = "leaf_arity" ->
                [receipt EXCEPT !.merkle_leaf_hash_arity = @ - 1]
          [] OTHER -> receipt

ReceiptFor(nonce, form, balances, shape, spoil) ==
    LET account_id == AccountIdText(nonce, form)
        leaf == LeafFor(account_id, balances)
        tree == HonestBranch(leaf, shape)
    IN  Spoiled([username |-> Username,
                 nonce |-> nonce,
                 account_id |-> account_id,
                 balances |-> balances,
                 merkle_root |-> tree[3],
                 merkle_branch |-> tree[1],
                 merkle_arity |-> tree[2],
                 merkle_leaf_hash_arity |-> Len(leaf)], spoil)

InitRcpt ==
    /\ IdleLhm
    /\ IdlePub
    /\ IdleGroth
    /\ IdleAnon
    /\ IdleScale
    /\ IdleHash
    /\ IdleAddr
    /\ IdlePerm
    /\ IdleLoop
    /\ \E nonce \in Nonces, form \in AccountIdForms, balances \in BalanceLists,
          shape \in BranchShapes, spoil \in Spoils :
            r = ReceiptFor(nonce, form, balances, shape, spoil)
    /\ pc = "step1"
    /\ correct_account_id = NONE
    /\ merkle_branch_valid = NONE
    /\ loop_i = 0
    /\ tamper = NO_OBJECT

Step1 ==
    /\ pc = "step1"
    /\ LET result == step1(r)
       IN  IF result = RAISE
           THEN pc' = "raised" /\ UNCHANGED correct_account_id
           ELSE pc' = "step2a" /\ correct_account_id' = result
    /\ UNCHANGED <<r, merkle_branch_valid, loop_i, tamper>>
    /\ UNCHANGED notRcptVars

Step2a ==
    /\ pc = "step2a"
    /\ LET result == step2a(r)
       IN  IF result = RAISE
           THEN pc' = "raised" /\ UNCHANGED merkle_branch_valid
           ELSE pc' = "step2b" /\ merkle_branch_valid' = result
    /\ UNCHANGED <<r, correct_account_id, loop_i, tamper>>
    /\ UNCHANGED notRcptVars

Step2b ==
    /\ pc = "step2b"
    /\ LET result == step2b(r, merkle_branch_valid)
       IN  IF result = RAISE
           THEN pc' = "raised" /\ UNCHANGED merkle_branch_valid
           ELSE pc' = "step2c" /\ merkle_branch_valid' = result
    /\ loop_i' = 0
    /\ UNCHANGED <<r, correct_account_id, tamper>>
    /\ UNCHANGED notRcptVars

Step2c ==
    /\ pc = "step2c"
    /\ loop_i < Len(r.merkle_branch) - 1
    /\ LET result == step2c(r, merkle_branch_valid, loop_i)
       IN  IF result = RAISE
           THEN pc' = "raised" /\ UNCHANGED <<merkle_branch_valid, loop_i>>
           ELSE pc' = "step2c" /\ merkle_branch_valid' = result /\ loop_i' = loop_i + 1
    /\ UNCHANGED <<r, correct_account_id, tamper>>
    /\ UNCHANGED notRcptVars

Return ==
    /\ pc = "step2c"
    /\ loop_i >= Len(r.merkle_branch) - 1
    /\ pc' = "done"
    /\ UNCHANGED <<r, correct_account_id, merkle_branch_valid, loop_i, tamper>>
    /\ UNCHANGED notRcptVars

\* One change to a receipt that verified as (True, True), verified again.
Verified == pc = "done" /\ correct_account_id = PyTrue /\ merkle_branch_valid = PyTrue

TamperDigits == {"0", "1", "2"}
TamperEntries(old) ==
    {IntV(6), IntV(9)} \cup (IF IsInt(old) THEN {IntV(IntOf(old) + PRIME)} ELSE {})

Restart ==
    /\ pc' = "step1"
    /\ correct_account_id' = NONE
    /\ merkle_branch_valid' = NONE
    /\ loop_i' = 0

TamperBalanceDigit ==
    /\ Verified
    /\ tamper = NO_OBJECT
    /\ \E e \in 1..Len(r.balances) : \E pos \in 1..Len(r.balances[e].balance) :
       \E d \in TamperDigits :
            /\ r.balances[e].balance[pos] # "."
            /\ r.balances[e].balance[pos] # d
            /\ r' = [r EXCEPT !.balances[e].balance[pos] = d]
            /\ tamper' = [kind |-> "balance", at |-> e, pos |-> pos,
                          old |-> IntV(DigitValue(r.balances[e].balance[pos])),
                          new |-> IntV(DigitValue(d))]
    /\ Restart
    /\ UNCHANGED notRcptVars

TamperPreimageEntry ==
    /\ Verified
    /\ tamper = NO_OBJECT
    /\ \E level \in 1..Len(r.merkle_branch) : \E k \in 1..Len(r.merkle_branch[level]) :
       \E new \in TamperEntries(r.merkle_branch[level][k]) :
            /\ new # r.merkle_branch[level][k]
            /\ r' = [r EXCEPT !.merkle_branch[level][k] = new]
            /\ tamper' = [kind |-> "preimage", at |-> level, pos |-> k,
                          old |-> r.merkle_branch[level][k], new |-> new]
    /\ Restart
    /\ UNCHANGED notRcptVars

TamperNonce ==
    /\ Verified
    /\ tamper = NO_OBJECT
    /\ \E nonce \in OtherNonces :
            /\ nonce # r.nonce
            /\ r' = [r EXCEPT !.nonce = nonce]
            /\ tamper' = [kind |-> "nonce", at |-> 0, pos |-> 0,
                          old |-> IntV(0), new |-> IntV(0)]
    /\ Restart
    /\ UNCHANGED notRcptVars

NextRcpt ==
    \/ Step1 \/ Step2a \/ Step2b \/ Step2c \/ Return
    \/ TamperBalanceDigit \/ TamperPreimageEntry \/ TamperNonce

SpecRcpt == InitRcpt /\ [][NextRcpt]_vars

-----------------------------------------------------------------------------
(* Bitcoin addresses: utils/btc_utils.py *)

BECH32_CHARSET == <<"q", "p", "z", "r", "y", "9", "x", "8", "g", "f", "2", "t",
                    "v", "d", "w", "0", "s", "3", "j", "n", "5", "4", "k", "h",
                    "c", "e", "6", "m", "u", "a", "7", "l">>

\* the alphabet of the base58 library
BITCOIN_ALPHABET == <<"1", "2", "3", "4", "5", "6", "7", "8", "9",
                      "A", "B", "C", "D", "E", "F", "G", "H", "J", "K", "L", "M",
                      "N", "P", "Q", "R", "S", "T", "U", "V", "W", "X", "Y", "Z",
                      "a", "b", "c", "d", "e", "f", "g", "h", "i", "j", "k", "m",
                      "n", "o", "p", "q", "r", "s", "t", "u", "v", "w", "x", "y",
                      "z">>

lower(s) ==
    [i \in 1..Len(s) |->
        IF \E k \in 1..26 : UpperLetters[k] = s[i]
        THEN LowerLetters[CHOOSE k \in 1..26 : UpperLetters[k] = s[i]]
        ELSE s[i]]

\* s[i:j]
slice(s, i, j) == SubSeq(s, SliceIndex(s, i) + 1, SliceIndex(s, j))

strip_leading_0x(s) ==
    IF Len(s) >= 2 /\ s[1] = "0" /\ s[2] = "x" THEN slice_from(s, 2) ELSE s

P2PKH == IntV(0)
P2SH == IntV(1)
P2WPKH == IntV(2)
P2WSH == IntV(3)

get_btc_address_type(addr) ==
    IF Len(addr) = 0 THEN RAISE
    ELSE IF addr[1] = "1" THEN P2PKH
    ELSE IF addr[1] = "3" THEN P2SH
    ELSE IF slice(addr, 0, 3) = <<"b", "c", "1">> /\ Len(addr) = P2WPKH_LEN THEN P2WPKH
    ELSE IF slice(addr, 0, 3) = <<"b", "c", "1">> /\ Len(addr) = P2WSH_LEN THEN P2WSH
    ELSE RAISE

\* base58.b58decode_int: the characters as base-58 digits, most significant
\* first; a character outside the alphabet is a ValueError
RECURSIVE b58_value(_)
b58_value(x) ==
    IF Len(x) = 0 THEN 0
    ELSE 58 * b58_value(SubSeq(x, 1, Len(x) - 1))
         + (CHOOSE k \in 1..58 : BITCOIN_ALPHABET[k] = x[Len(x)]) - 1

btc_b58_to_int(x) ==
    IF \E i \in 1..Len(x) : \A k \in 1..58 : BITCOIN_ALPHABET[k] # x[i]
    THEN RAISE
    ELSE IntV(b58_value(x))

\* bytes are kept as hexadecimal text, two characters a byte
b58addrtoint(addr_str) ==
    LET temp == btc_b58_to_int(addr_str)
    IN  IF temp = RAISE THEN RAISE
        ELSE LET temp_hex == strip_leading_0x(hex(IntOf(temp)))
                 even_hex == IF Len(temp_hex) % 2 = 1 THEN <<"0">> \o temp_hex
                             ELSE temp_hex
                 chopped == slice_to(even_hex, 0 - 2 * B58ChecksumBytes)
             IN  IF Len(chopped) \div 2 > HashBytes
                    /\ Len(chopped) \div 2 # HashBytes + 1
                 THEN RAISE
                 ELSE LET temp_bytes == IF Len(chopped) \div 2 > HashBytes
                                        THEN slice_from(chopped, 0 - 2 * HashBytes)
                                        ELSE chopped
                          result == FromBase(temp_bytes, 16)
                      IN  IF result < Pow(2, 8 * HashBytes) THEN IntV(result)
                          ELSE RAISE

bech32CharToInt(c) ==
    IF \A k \in 1..32 : BECH32_CHARSET[k] # c THEN RAISE
    ELSE IntV((CHOOSE k \in 1..32 : BECH32_CHARSET[k] = c) - 1)

\* convertbits returning None
ConvertNone == <<-1>>

\* the while loop of convertbits: <<bits, ret>>
RECURSIVE convertbits_emit(_, _, _, _, _)
convertbits_emit(acc, bits, ret, tobits, maxv) ==
    IF bits >= tobits
    THEN convertbits_emit(acc, bits - tobits,
                          Append(ret, (acc \div Pow(2, bits - tobits)) % (maxv + 1)),
                          tobits, maxv)
    ELSE <<bits, ret>>

RECURSIVE convertbits_loop(_, _, _, _, _, _, _, _)
convertbits_loop(data, i, acc, bits, ret, frombits, tobits, pad) ==
    LET maxv == Pow(2, tobits) - 1
        max_acc == Pow(2, frombits + tobits - 1) - 1
    IN  IF i > Len(data)
        THEN IF pad
             THEN IF bits # 0
                  THEN Append(ret, (acc * Pow(2, tobits - bits)) % (maxv + 1))
                  ELSE ret
             ELSE IF bits >= frombits
                     \/ (acc * Pow(2, tobits - bits)) % (maxv + 1) # 0
                  THEN ConvertNone
                  ELSE ret
        ELSE IF data[i] < 0 \/ data[i] \div Pow(2, frombits) # 0
             THEN ConvertNone
             ELSE LET next_acc == (acc * Pow(2, frombits) + data[i]) % (max_acc + 1)
                      emitted == convertbits_emit(next_acc, bits + frombits, ret,
                                                  tobits, maxv)
                  IN  convertbits_loop(data, i + 1, next_acc, emitted[1], emitted[2],
                                       frombits, tobits, pad)

convertbits(data, frombits, tobits, pad) ==
    convertbits_loop(data, 1, 0, 0, << >>, frombits, tobits, pad)

RECURSIVE bytes_value(_)
bytes_value(decoded) ==
    IF Len(decoded) = 0 THEN 0
    ELSE 256 * bytes_value(SubSeq(decoded, 1, Len(decoded) - 1)) + decoded[Len(decoded)]

\* line 100 compares the method addr_str.upper, not its result, with the
\* text, so its second alternative is never true
bech32addrtoint(addr_str) ==
    IF Len(addr_str) # P2WPKH_LEN /\ Len(addr_str) # P2WSH_LEN THEN RAISE
    ELSE IF ~(lower(addr_str) = addr_str \/ FALSE) THEN RAISE
    ELSE IF slice_to(lower(addr_str), 3) # <<"b", "c", "1">> THEN RAISE
    ELSE LET important_addr_substr ==
                 slice(lower(addr_str), 4, 0 - Bech32ChecksumChars)
         IN  IF \E i \in 1..Len(important_addr_substr) :
                     bech32CharToInt(important_addr_substr[i]) = RAISE
             THEN RAISE
             ELSE LET experiment == [i \in 1..Len(important_addr_substr) |->
                                        IntOf(bech32CharToInt(important_addr_substr[i]))]
                      decoded == convertbits(experiment, 5, 8, FALSE)
                  IN  IF decoded = ConvertNone THEN RAISE
                      ELSE LET temp == bytes_value(decoded)
                               temp_hexstr == strip_leading_0x(hex(temp))
                               result == IntOf(py_int(temp_hexstr, 16))
                           IN  IF result < Pow(2, ScriptAddrBits) /\ result > 0
                               THEN IntV(result)
                               ELSE RAISE

btc_addr_to_int(addr) ==
    LET addr_type == get_btc_address_type(addr)
    IN  IF addr_type = RAISE THEN RAISE
        ELSE IF addr_type = P2PKH \/ addr_type = P2SH THEN b58addrtoint(addr)
        ELSE IF addr_type = P2WPKH \/ addr_type = P2WSH THEN bech32addrtoint(addr)
        ELSE RAISE

-----------------------------------------------------------------------------
(* The anonymity-set hash: generate_snapshot_hash.py *)

BTC_PUBKEY == 0
BTC_SCRIPT == 1
ETH == 2
AnonsetType == {BTC_PUBKEY, BTC_SCRIPT, ETH}


\* make_address_integer_regs with the registers of a script address most
\* significant first
make_address_integer_regs_msfirst(address, type) ==
    IF type = BTC_PUBKEY
    THEN LET addr_int == btc_addr_to_int(address)
         IN  IF addr_int = RAISE THEN RAISE_LIST
             ELSE IF ~(IntOf(addr_int) < Pow(2, PubkeyAddrBits)) THEN RAISE_LIST
             ELSE <<addr_int>>
    ELSE IF type = BTC_SCRIPT
    THEN LET addr_int == btc_addr_to_int(address)
         IN  IF addr_int = RAISE THEN RAISE_LIST
             ELSE IF ~(IntOf(addr_int) < Pow(2, ScriptAddrBits)) THEN RAISE_LIST
             ELSE <<IntV((IntOf(addr_int) \div Pow(2, ScriptRegBits))
                         % Pow(2, ScriptRegBits)),
                    IntV(IntOf(addr_int) % Pow(2, ScriptRegBits))>>
    ELSE IF type = ETH
    THEN LET addr_int == py_int(address, 16)
         IN  IF addr_int = RAISE THEN RAISE_LIST
             ELSE IF ~(IntOf(addr_int) < Pow(2, PubkeyAddrBits)) THEN RAISE_LIST
             ELSE <<addr_int>>
    ELSE RAISE_LIST

\* the registers of an address as a list of integers, or RAISE_LIST
make_address_integer_regs(address, type) ==
    IF type = BTC_PUBKEY
    THEN LET addr_int == btc_addr_to_int(address)
         IN  IF addr_int = RAISE THEN RAISE_LIST
             ELSE IF ~(IntOf(addr_int) < Pow(2, PubkeyAddrBits)) THEN RAISE_LIST
             ELSE <<addr_int>>
    ELSE IF type = BTC_SCRIPT
    THEN LET addr_int == btc_addr_to_int(address)
         IN  IF addr_int = RAISE THEN RAISE_LIST
             ELSE IF ~(IntOf(addr_int) < Pow(2, ScriptAddrBits)) THEN RAISE_LIST
             ELSE <<IntV(IntOf(addr_int) % Pow(2, ScriptRegBits)),
                    IntV((IntOf(addr_int) \div Pow(2, ScriptRegBits))
                         % Pow(2, ScriptRegBits))>>
    ELSE IF type = ETH
    THEN LET addr_int == py_int(address, 16)
         IN  IF addr_int = RAISE THEN RAISE_LIST
             ELSE IF ~(IntOf(addr_int) < Pow(2, PubkeyAddrBits)) THEN RAISE_LIST
             ELSE <<addr_int>>
    ELSE RAISE_LIST

\* the default arity of linear_hash_many
LHM_ARITY == 16

\* balance jj (from 1) of address ii scaled to proof precision, or RAISE
\* (a balance list that is too short, a negative balance)
proof_balance(set, ii, jj) ==
    IF jj > Len(set[ii].balances) THEN RAISE
    ELSE snapshot_precision_to_proof_precision(get_balance_orders[jj],
                                               set[ii].balances[jj])

\* lines 70-109.  address_len is None when the loop of line 100 reaches
\* range(address_len), which is a TypeError, so only an empty anonset gets
\* as far as the two hashes.
get_anonset_hash(set, type, n, balanceDimension) ==
    IF Len(set) # n THEN RAISE
    ELSE IF \E ii \in 1..n : \E jj \in 1..balanceDimension :
                proof_balance(set, ii, jj) = RAISE
    THEN RAISE
    ELSE LET anonset_balances ==
                 [k \in 1..(n * balanceDimension) |->
                     proof_balance(set, ((k - 1) \div balanceDimension) + 1,
                                   ((k - 1) % balanceDimension) + 1)]
             balances_hash == linear_hash_many(anonset_balances, LHM_ARITY)
         IN  IF \E ii \in 1..n : make_address_integer_regs(set[ii].address, type) = RAISE_LIST
             THEN RAISE
             ELSE IF n >= 1 THEN RAISE
             ELSE LET flatted_anonset_addrs == << >>
                      addrs_hash == linear_hash_many(flatted_anonset_addrs, LHM_ARITY)
                  IN  poseidon_hash(<<balances_hash, addrs_hash>>, 2)

\* The anonymity sets tried: up to MaxAnonset addresses, each a Base58Check,
\* bech32 or hexadecimal text with a list of snapshot balances, hashed under
\* each anonset type and with each declared count.
RECURSIVE ToBase58(_)
ToBase58(n) ==
    IF n < 58 THEN <<BITCOIN_ALPHABET[n + 1]>>
    ELSE Append(ToBase58(n \div 58), BITCOIN_ALPHABET[(n % 58) + 1])

RECURSIVE Repeat(_, _)
Repeat(c, n) == IF n <= 0 THEN << >> ELSE <<c>> \o Repeat(c, n - 1)

\* version byte 0: the leading zero byte is written as the character 1
P2pkhAddress(hash, checksum) ==
    <<"1">> \o ToBase58(hash * Pow(2, 8 * B58ChecksumBytes) + checksum)

\* the version byte that makes the first character a 3
P2shVersion ==
    CHOOSE v \in 1..255 :
        ToBase58(v * Pow(2, 8 * (HashBytes + B58ChecksumBytes)))[1] = "3"

P2shAddress(hash, checksum) ==
    ToBase58((P2shVersion * Pow(2, 8 * HashBytes) + hash)
             * Pow(2, 8 * B58ChecksumBytes) + checksum)

Bech32Address(length, lead) ==
    <<"b", "c", "1", "q">> \o lead
    \o Repeat("q", length - 4 - Bech32ChecksumChars - Len(lead))
    \o Repeat("l", Bech32ChecksumChars)

AnonAddresses ==
    { P2pkhAddress(17, 3),
      P2shAddress(200, 9),
      Bech32Address(P2WPKH_LEN, <<"p">>),
      Bech32Address(P2WSH_LEN, <<"z", "p">>),
      <<"0", "x", "1", "f">>,
      <<"0", "x", "4", "0", "0">> }

SnapshotBalances(btc, eth) ==
    <<btc, eth>> \o [k \in 1..(BALANCE_DIMENSION - 2) |-> 0]

AnonBalances ==
    { SnapshotBalances(0, 0),
      SnapshotBalances(OneBtc, OneEth + 1),
      SnapshotBalances(-1, 0),
      <<1, 1>> }

PublicAddressInfo == [address : AnonAddresses, balances : AnonBalances]

InitAnon ==
    /\ IdleLhm
    /\ IdlePub
    /\ IdleGroth
    /\ IdleRcpt
    /\ IdleScale
    /\ IdleHash
    /\ IdleAddr
    /\ IdlePerm
    /\ IdleLoop
    /\ anonset \in UNION {[1..n -> PublicAddressInfo] : n \in 0..MaxAnonset}
    /\ anonset_type \in AnonsetType
    /\ npubaddrs \in 0..MaxAnonset
    /\ anon_called = FALSE
    /\ anonset_hash = NONE

GetAnonsetHash ==
    /\ ~anon_called
    /\ anon_called' = TRUE
    /\ anonset_hash' = get_anonset_hash(anonset, anonset_type, npubaddrs,
                                        BALANCE_DIMENSION)
    /\ UNCHANGED <<anonset, anonset_type, npubaddrs>>
    /\ UNCHANGED notAnonVars

NextAnon == GetAnonsetHash

SpecAnon == InitAnon /\ [][NextAnon]_vars

\* The scalings tried: every value from -2 to MaxValue, every pair of
\* decimals up to MaxDecimals, both settings of round_up, and for the two
\* conversions a supported token, a reserved one and one in no list.
ScaleTokens == {BITCOIN_TOKEN, ETHER_TOKEN, get_balance_orders[3], <<"X", "R", "P">>}

InitScale ==
    /\ IdleLhm
    /\ IdlePub
    /\ IdleGroth
    /\ IdleRcpt
    /\ IdleAnon
    /\ IdleHash
    /\ IdleAddr
    /\ IdlePerm
    /\ IdleLoop
    /\ sc_value \in (0 - 2)..MaxValue
    /\ sc_in_dec \in 0..MaxDecimals
    /\ sc_out_dec \in 0..MaxDecimals
    /\ sc_round_up \in BOOLEAN
    /\ sc_token \in ScaleTokens
    /\ sc_result = NONE
    /\ sc_back = NONE
    /\ sc_snapshot = NONE
    /\ sc_account = NONE

ScaleUnits ==
    /\ sc_result = NONE
    /\ sc_result' = scale_units(sc_value, sc_in_dec, sc_out_dec, sc_round_up)
    /\ UNCHANGED <<sc_value, sc_in_dec, sc_out_dec, sc_round_up, sc_token,
                   sc_back, sc_snapshot, sc_account>>
    /\ UNCHANGED notScaleVars

\* the result of scale_units scaled back to the decimals it came from
ScaleBack ==
    /\ sc_result # NONE
    /\ sc_result # RAISE
    /\ sc_back = NONE
    /\ sc_back' = scale_units(IntOf(sc_result), sc_out_dec, sc_in_dec, sc_round_up)
    /\ UNCHANGED <<sc_value, sc_in_dec, sc_out_dec, sc_round_up, sc_token,
                   sc_result, sc_snapshot, sc_account>>
    /\ UNCHANGED notScaleVars

SnapshotToProof ==
    /\ sc_snapshot = NONE
    /\ sc_snapshot' = snapshot_precision_to_proof_precision(sc_token, sc_value)
    /\ UNCHANGED <<sc_value, sc_in_dec, sc_out_dec, sc_round_up, sc_token,
                   sc_result, sc_back, sc_account>>
    /\ UNCHANGED notScaleVars

AccountToProof ==
    /\ sc_account = NONE
    /\ sc_account' = account_precision_to_proof_precision(sc_token, sc_value)
    /\ UNCHANGED <<sc_value, sc_in_dec, sc_out_dec, sc_round_up, sc_token,
                   sc_result, sc_back, sc_snapshot>>
    /\ UNCHANGED notScaleVars

NextScale == ScaleUnits \/ ScaleBack \/ SnapshotToProof \/ AccountToProof

SpecScale == InitScale /\ [][NextScale]_vars

\* The calls of poseidon_hash tried: every list of up to MaxLen words over
\* three values, with every arity from 1 to MaxArity.
HashElems == {IntV(0), IntV(1), IntV(2)}

InitHash ==
    /\ IdleLhm
    /\ IdlePub
    /\ IdleGroth
    /\ IdleRcpt
    /\ IdleAnon
    /\ IdleScale
    /\ IdleAddr
    /\ IdlePerm
    /\ IdleLoop
    /\ ph_input \in SeqsUpTo(HashElems, MaxArity + 1)
    /\ ph_arity \in 1..MaxArity
    /\ ph_output = NONE

PoseidonHash ==
    /\ ph_output = NONE
    /\ ph_output' = poseidon_hash(ph_input, ph_arity)
    /\ UNCHANGED <<ph_input, ph_arity>>
    /\ UNCHANGED notHashVars

NextHash == PoseidonHash

SpecHash == InitHash /\ [][NextHash]_vars

\* The addresses tried: Base58Check addresses of both kinds, bech32
\* addresses of both lengths in lower case, in upper case and in mixed
\* case, hexadecimal texts, and texts that are no address; each decoded on
\* its own and turned into registers under each anonset type.
Bech32Leads == {<<"p">>, <<"z">>, <<"z", "p">>, <<"l", "l">>}

LowerBech32 ==
    {Bech32Address(n, lead) : n \in {P2WPKH_LEN, P2WSH_LEN}, lead \in Bech32Leads}

\* upper case in the data part only, and in the prefix only
MixedData(a) == slice_to(a, 4) \o upper(slice_from(a, 4))
MixedPrefix(a) == upper(slice_to(a, 4)) \o slice_from(a, 4)

Base58Addresses ==
    {P2pkhAddress(h, 3) : h \in {17, 200}} \cup {P2shAddress(h, 9) : h \in {17, 200}}

HexAddresses ==
    { <<"0", "x", "1", "f">>, <<"0", "x", "4", "0", "0">>, <<"f", "f">>,
      <<"-", "1">>, <<"0", "x", "g">> }

AddrTexts ==
    LowerBech32
    \cup {upper(a) : a \in LowerBech32}
    \cup {MixedData(a) : a \in LowerBech32}
    \cup {MixedPrefix(a) : a \in LowerBech32}
    \cup Base58Addresses
    \cup HexAddresses
    \cup {<< >>, <<"b", "c", "1">>}

InitAddr ==
    /\ IdleLhm
    /\ IdlePub
    /\ IdleGroth
    /\ IdleRcpt
    /\ IdleAnon
    /\ IdleScale
    /\ IdleHash
    /\ IdlePerm
    /\ IdleLoop
    /\ ma_address \in AddrTexts
    /\ ma_type \in AnonsetType
    /\ ma_int = NONE
    /\ ma_regs = << >>

BtcAddrToInt ==
    /\ ma_int = NONE
    /\ ma_int' = btc_addr_to_int(ma_address)
    /\ UNCHANGED <<ma_address, ma_type, ma_regs>>
    /\ UNCHANGED notAddrVars

MakeAddressIntegerRegs ==
    /\ ma_regs = << >>
    /\ ma_regs' = make_address_integer_regs(ma_address, ma_type)
    /\ UNCHANGED <<ma_address, ma_type, ma_int>>
    /\ UNCHANGED notAddrVars

NextAddr == BtcAddrToInt \/ MakeAddressIntegerRegs

SpecAddr == InitAddr /\ [][NextAddr]_vars

\* One permutation of a state of small words, round by round, for every
\* width, every number of partial rounds and a list of round constants that
\* is as long as the rounds consume, shorter, or longer.
PermWidths == 2..MaxArity

PermWords == {IntV(0), IntV(1), IntV(PRIME - 1)}

MdsTable(t, seed) ==
    [i \in 1..t |-> [j \in 1..t |-> (seed + i * (j + 1) + j * j) % PRIME]]

RoundConstantTable(n, seed) ==
    [i \in 1..n |-> (seed * i * i + 3 * i + seed) % PRIME]

InitPerm ==
    /\ IdleLhm
    /\ IdlePub
    /\ IdleGroth
    /\ IdleRcpt
    /\ IdleAnon
    /\ IdleScale
    /\ IdleHash
    /\ IdleAddr
    /\ IdleLoop
    /\ pw_t \in PermWidths
    /\ \E n \in PermWidths : pw_input \in [1..n -> PermWords]
    /\ pw_RP \in 0..MaxRP
    /\ \E seed \in 1..MaxSeed :
          /\ pw_M = MdsTable(pw_t, seed)
          /\ \E off \in (0 - MaxOff)..MaxOff :
                pw_RC = RoundConstantTable(pw_t * (2 * Rf + pw_RP) + off, seed)
    /\ pw_words = << >>
    /\ pw_rc = 0
    /\ pw_r = 0
    /\ pw_pc = "call"
    /\ pw_out = << >>

PermRaise ==
    /\ pw_out' = RAISE_LIST
    /\ pw_pc' = "done"
    /\ UNCHANGED <<pw_words, pw_rc, pw_r>>

\* lines 39 to 46
PermEnter ==
    /\ pw_pc = "call"
    /\ IF Len(pw_input) # pw_t THEN PermRaise
       ELSE /\ pw_words' = [i \in 1..pw_t |-> IntOf(pw_input[i])]
            /\ pw_rc' = 0
            /\ pw_r' = 0
            /\ pw_pc' = "rounds"
            /\ UNCHANGED pw_out
    /\ UNCHANGED <<pw_input, pw_t, pw_RP, pw_M, pw_RC>>
    /\ UNCHANGED notPermVars

\* one round with the nonlinear layer given
PermRound(boxed) ==
    IF boxed = << >> THEN PermRaise
    ELSE LET mixed == matrix_multiply(get_mds(pw_t), boxed)
         IN  IF mixed = << >> THEN PermRaise
             ELSE /\ pw_words' = mixed
                  /\ pw_rc' = pw_rc + pw_t
                  /\ pw_r' = pw_r + 1
                  /\ UNCHANGED <<pw_pc, pw_out>>

\* pw_r counts the rounds of the three loops together
FirstFullRound ==
    /\ pw_pc = "rounds"
    /\ pw_r < Rf
    /\ LET added == add_round_constants(pw_words, get_round_constants(pw_t), pw_rc)
       IN  PermRound(IF added = << >> THEN << >> ELSE full_s_box(added))
    /\ UNCHANGED <<pw_input, pw_t, pw_RP, pw_M, pw_RC>>
    /\ UNCHANGED notPermVars

PartialRound ==
    /\ pw_pc = "rounds"
    /\ pw_r >= Rf
    /\ pw_r < Rf + get_RP(pw_t)
    /\ LET added == add_round_constants(pw_words, get_round_constants(pw_t), pw_rc)
       IN  PermRound(IF added = << >> THEN << >> ELSE partial_s_box(added))
    /\ UNCHANGED <<pw_input, pw_t, pw_RP, pw_M, pw_RC>>
    /\ UNCHANGED notPermVars

LastFullRound ==
    /\ pw_pc = "rounds"
    /\ pw_r >= Rf + get_RP(pw_t)
    /\ pw_r < Rf + get_RP(pw_t) + Rf
    /\ LET added == add_round_constants(pw_words, get_round_constants(pw_t), pw_rc)
       IN  PermRound(IF added = << >> THEN << >> ELSE full_s_box(added))
    /\ UNCHANGED <<pw_input, pw_t, pw_RP, pw_M, pw_RC>>
    /\ UNCHANGED notPermVars

\* lines 74 and 75
PermReturn ==
    /\ pw_pc = "rounds"
    /\ pw_r = Rf + get_RP(pw_t) + Rf
    /\ IF pw_rc # Len(get_round_constants(pw_t)) THEN PermRaise
       ELSE /\ pw_out' = [i \in 1..pw_t |-> IntV(pw_words[i])]
            /\ pw_pc' = "done"
            /\ UNCHANGED <<pw_words, pw_rc, pw_r>>
    /\ UNCHANGED <<pw_input, pw_t, pw_RP, pw_M, pw_RC>>
    /\ UNCHANGED notPermVars

NextPerm ==
    \/ PermEnter
    \/ FirstFullRound
    \/ PartialRound
    \/ LastFullRound
    \/ PermReturn

SpecPerm == InitPerm /\ [][NextPerm]_vars

\* linear_hash_many one iteration at a time, for every arity from 1.  The
\* iterations are followed up to MaxIters, since the hash grows with each.
InitLoop ==
    /\ IdleLhm
    /\ IdlePub
    /\ IdleGroth
    /\ IdleRcpt
    /\ IdleAnon
    /\ IdleScale
    /\ IdleHash
    /\ IdleAddr
    /\ IdlePerm
    /\ ll_inputs \in SeqsUpTo(LhmElems, MaxLen)
    /\ ll_arity \in 1..MaxArity
    /\ ll_remaining = << >>
    /\ ll_hash = NONE
    /\ ll_iters = 0
    /\ ll_pc = "call"

\* lines 90 to 97
BaseCase ==
    /\ ll_pc = "call"
    /\ IF Len(ll_inputs) <= ll_arity
       THEN LET base_hash_inputs == ll_inputs \o Zeros(ll_arity - Len(ll_inputs))
            IN  /\ ll_hash' = poseidon_hash(base_hash_inputs, ll_arity)
                /\ ll_remaining' = << >>
       ELSE LET base_hash_inputs == SubSeq(ll_inputs, 1, ll_arity)
            IN  /\ ll_remaining' = SubSeq(ll_inputs, ll_arity + 1, Len(ll_inputs))
                /\ ll_hash' = poseidon_hash(base_hash_inputs, ll_arity)
    /\ ll_pc' = "while"
    /\ UNCHANGED <<ll_inputs, ll_arity, ll_iters>>
    /\ UNCHANGED notLoopVars

\* lines 99 to 108: one iteration of the while loop
Absorb ==
    /\ ll_pc = "while"
    /\ Len(ll_remaining) > 0
    /\ ll_iters < MaxIters
    /\ IF Len(ll_remaining) <= ll_arity - 1
       THEN LET hash_inputs == <<ll_hash>> \o ll_remaining
                                \o Zeros(ll_arity - Len(ll_remaining) - 1)
            IN  /\ ll_remaining' = << >>
                /\ ll_hash' = poseidon_hash(hash_inputs, ll_arity)
       ELSE LET hash_inputs == <<ll_hash>> \o SubSeq(ll_remaining, 1, ll_arity - 1)
            IN  /\ ll_remaining' = SubSeq(ll_remaining, ll_arity, Len(ll_remaining))
                /\ ll_hash' = poseidon_hash(hash_inputs, ll_arity)
    /\ ll_iters' = ll_iters + 1
    /\ UNCHANGED <<ll_inputs, ll_arity, ll_pc>>
    /\ UNCHANGED notLoopVars

\* lines 99 and 110: the loop condition fails and the hash is returned
ReturnHash ==
    /\ ll_pc = "while"
    /\ ~(Len(ll_remaining) > 0)
    /\ ll_pc' = "done"
    /\ UNCHANGED <<ll_inputs, ll_arity, ll_remaining, ll_hash, ll_iters>>
    /\ UNCHANGED notLoopVars

NextLoop == BaseCase \/ Absorb \/ ReturnHash

SpecLoop == InitLoop /\ [][NextLoop]_vars

-----------------------------------------------------------------------------
(* The reference sponge of the linear hash *)

PadTo(block, n) == block \o Zeros(n - Len(block))

\* number of (arity-1)-wide blocks that follow the first block
RestBlocks(n, a) == IF n <= a THEN 0 ELSE ((n - a) + (a - 2)) \div (a - 1)

RECURSIVE RefAbsorb(_, _, _, _)
RefAbsorb(xs, a, i, h) ==
    IF i > RestBlocks(Len(xs), a) THEN h
    ELSE LET from == a + (i - 1) * (a - 1) + 1
             to == Min(Len(xs), from + a - 2)
         IN  RefAbsorb(xs, a, i + 1,
                       poseidon_hash(<<h>> \o PadTo(SubSeq(xs, from, to), a - 1), a))

RefSponge(xs, a) ==
    RefAbsorb(xs, a, 1, poseidon_hash(PadTo(SubSeq(xs, 1, Min(Len(xs), a)), a), a))

\* zeros that still fit into the zero padding of the last block of n inputs
PadRoom(n, a) == IF n <= a THEN a - n ELSE RestBlocks(n, a) * (a - 1) - (n - a)

-----------------------------------------------------------------------------
(* The pubhash as the specification writes it *)

Limb(m, i) == IntV((m \div Pow(Pow(2, RegBits), i)) % Pow(2, RegBits))

RefAbase(A, base_key) ==
    poseidon_hash(<<Limb(A.msg_hash, 0), Limb(A.msg_hash, 1),
                    Limb(A.msg_hash, 2), Limb(A.msg_hash, 3),
                    IntV(A.hashed_pub_addrs),
                    IntV(A.min_owned_addr_selector),
                    IntV(A.max_owned_addr_selector),
                    IntV(A[base_key]),
                    IntV(A.hashed_vkey_anonsetagg)>>, 9)

RefHashLiab(L) ==
    poseidon_hash(<<IntV(L.hashed_vkey_liab_base), IntV(L.hashed_vkey_liab_rec),
                    IntV(L.merkle_root)>>, 3)

RefHashAssets(S) ==
    LET rec_h == poseidon_hash(<<RefAbase(S.eth, "hashed_vkey_eth_base"),
                                 RefAbase(S.btc, "hashed_vkey_btc_base"),
                                 RefAbase(S.btc_multi3, "hashed_vkey_btc_multi3_base"),
                                 IntV(0),
                                 IntV(S.anonsetagg_vkey_hash),
                                 IntV(S.anonsetagg_vkey_hash),
                                 IntV(S.anonsetagg_vkey_hash),
                                 IntV(S.dummy_vkey_hash)>>, 8)
    IN  poseidon_hash(<<rec_h, IntV(S.assetsrec_vkey_hash)>>, 2)

RefPubhash(po) ==
    poseidon_hash(<<RefHashAssets(po.assets), RefHashLiab(po.liabilities)>>, 2)

MsgHashesFit(po) ==
    \A name \in {"eth", "btc", "btc_multi3"} :
        po.assets[name].msg_hash \in 0..(MsgHashLimit - 1)

-----------------------------------------------------------------------------
(* Claims *)

C5_MatchesReferenceSponge ==
    lhm_digest # NONE => lhm_digest = RefSponge(lhm_inputs, lhm_arity)

\* C5 witness: a digest of a list with a first block and a zero-padded last block
C5_Witness ==
    /\ lhm_digest # NONE
    /\ lhm_digest # RAISE
    /\ Len(lhm_inputs) > lhm_arity
    /\ (Len(lhm_inputs) - lhm_arity) % (lhm_arity - 1) # 0

\* C6 as stated: appending k >= 1 zeros to the input list always changes the
\* digest of linear_hash_many.
C6_AnyZeroExtensionChangesDigest ==
    (lhm_digest # NONE /\ lhm_digest_ext # NONE /\ lhm_k >= 1)
        => lhm_digest_ext # lhm_digest

\* C6 amended: appending k zeros leaves the digest unchanged exactly when the
\* zeros fit into the zero padding of the last block of the input list
\* (k <= PadRoom); an extension that opens a new block changes the digest.
C6_ZeroExtensionWithinPadding ==
    (lhm_digest # NONE /\ lhm_digest_ext # NONE)
        => ((lhm_digest_ext = lhm_digest)
                <=> lhm_k <= PadRoom(Len(lhm_inputs), lhm_arity))

\* C6 witness: a non-trivial zero extension with the same digest
C6_Witness ==
    /\ lhm_k >= 1
    /\ lhm_digest # NONE
    /\ lhm_digest # RAISE
    /\ lhm_digest_ext = lhm_digest

-----------------------------------------------------------------------------
(* Groth16: the pairing equation and the decoded points *)

\* e(-A, B) e(alpha1, beta2) e(IC0 + x IC1, gamma2) e(C, delta2) = 1, with the
\* bilinear map evaluated on the discrete logarithms of its operands
PairingEquation(x, pf, key) ==
    ( (0 - DLog1(pf.A)) * DLog2(pf.B)
      + DLog1(key.alpha1) * DLog2(key.beta2)
      + (DLog1(key.IC0) + x * DLog1(key.IC1)) * DLog2(key.gamma2)
      + DLog1(pf.C) * DLog2(key.delta2) ) % snark_scalar_field = 0

\* the integers of a raw G1 point and of a raw G2 point (as py_ecc orders them)
RawInts1(raw) == <<StrToInt(raw[1]), StrToInt(raw[2])>>
RawInts2(raw) == [i \in 1..2 |-> <<StrToInt(raw[i][2]), StrToInt(raw[i][1])>>]

OutOfRange1(raw) == \E i \in 1..2 : RawInts1(raw)[i] >= FIELD_MODULUS
OutOfRange2(raw) == \E i \in 1..2, j \in 1..2 : RawInts2(raw)[i][j] >= FIELD_MODULUS
OffCurve1(raw) ==
    LET pt == RawInts1(raw)
    IN  (pt[2] * pt[2]) % FIELD_MODULUS # (pt[1] * pt[1] * pt[1] + 3) % FIELD_MODULUS
OffCurve2(raw) ==
    LET pt == RawInts2(raw)
        x == <<pt[1][1] % FIELD_MODULUS, pt[1][2] % FIELD_MODULUS>>
        y == <<pt[2][1] % FIELD_MODULUS, pt[2][2] % FIELD_MODULUS>>
    IN  fq2_mul(y, y) # fq2_add(fq2_mul(fq2_mul(x, x), x), b2)

BadPointDecoded ==
    \/ \E raw \in {raw_proof.pi_a, raw_proof.pi_c, raw_vk.vk_alpha_1,
                   raw_vk.IC[1], raw_vk.IC[2]} : OutOfRange1(raw) \/ OffCurve1(raw)
    \/ \E raw \in {raw_proof.pi_b, raw_vk.vk_beta_2, raw_vk.vk_gamma_2,
                   raw_vk.vk_delta_2} : OutOfRange2(raw) \/ OffCurve2(raw)

\* what decoding and verifying come to: NONE while undecided
VerificationOutcome ==
    IF proof = RAISED \/ vk = RAISED THEN RAISE
    ELSE verification

\* C2 as stated: for every public input x < r, verify returns true exactly
\* when e(-A, B) e(alpha1, beta2) e(vk_x, gamma2) e(C, delta2) is the identity,
\* with vk_x = IC0 + x IC1, and false for every other pairing product.
C2_VerifyIffPairingEquation ==
    (verification # NONE /\ pub_input \in 0..(snark_scalar_field - 1))
        => verification = PyBool(PairingEquation(pub_input, proof, vk))

\* C2, where verify returns: whenever verify returns a value, the value is
\* true exactly when the pairing equation holds.
C2_ReturnedValueIsPairingEquation ==
    (verification # NONE /\ verification # RAISE)
        => verification = PyBool(PairingEquation(pub_input, proof, vk))

\* verify returns for every x in 1..r-1 whose vk_x is not the point at infinity
C2_RaisesOnlyAtInfinity ==
    (verification = RAISE /\ pub_input \in 0..(snark_scalar_field - 1))
        => \/ pub_input = 0
           \/ (DLog1(vk.IC0) + pub_input * DLog1(vk.IC1)) % snark_scalar_field = 0

C2_AcceptedProof == verification = PyTrue

\* C3 as stated: a proof or verifying-key point that is not on its curve, or
\* that has a coordinate >= p, makes the verification come out as false:
\* neither accepted nor a raised error.
C3_BadPointReturnsFalse ==
    (BadPointDecoded /\ VerificationOutcome # NONE)
        => VerificationOutcome = PyFalse

\* an out-of-range coordinate is reduced and the proof accepted
C3_OutOfRangeAccepted ==
    /\ OutOfRange1(raw_proof.pi_a)
    /\ verification = PyTrue

-----------------------------------------------------------------------------
(* Receipt verification: claims *)

\* pack6: six balances to a word, balance j (from 0) in bits [j*w, (j+1)*w)
RefPack6(balances, k) ==
    LET lane(j) == balances[ACCT_BALANCES_PER_ELT * (k - 1) + j + 1]
                   * Pow(2, ACCT_BALANCE_BITS * j)
    IN  lane(0) + lane(1) + lane(2) + lane(3) + lane(4) + lane(5)

RefLeaf(receipt) ==
    LET balances == receipt_balances_of(receipt, get_balance_orders)
    IN  <<py_int(receipt.account_id, 16)>>
        \o [k \in 1..(BALANCE_DIMENSION \div ACCT_BALANCES_PER_ELT) |->
               IntV(RefPack6(balances, k))]

CheckA == r.merkle_branch[1] = RefLeaf(r)

CheckB == poseidon_hash(r.merkle_branch[Len(r.merkle_branch)], r.merkle_arity)
          = r.merkle_root

Link(i) ==
    poseidon_hash(r.merkle_branch[i],
                  IF i = 1 THEN r.merkle_leaf_hash_arity ELSE r.merkle_arity)
        \in SeqElems(r.merkle_branch[i + 1])

CheckC == \A i \in 1..(Len(r.merkle_branch) - 1) : Link(i)

\* C7: whenever verify_receipt returns, merkle_ok is true exactly when the
\* leaf preimage is the packed account info (a), the last preimage hashes to
\* the root (b) and every preimage hashes to a member of the next one (c);
\* and once a check has made the flag false no later step makes it true.
C7_MerkleOkIffAllChecks ==
    /\ [](pc = "done" => merkle_branch_valid = PyBool(CheckA /\ CheckB /\ CheckC))
    /\ [][merkle_branch_valid = PyFalse => merkle_branch_valid' = PyFalse]_vars

\* a returned verification in which the first link failed and the later
\* link and the root check passed
C7_Witness ==
    /\ pc = "done"
    /\ Len(r.merkle_branch) = 3
    /\ ~Link(1)
    /\ Link(2)
    /\ CheckB
    /\ merkle_branch_valid = PyFalse

\* C8: account_id_ok is true exactly when the receipt's account_id, read as
\* a hexadecimal number with or without the 0x prefix, in either letter case
\* and with or without leading zeros, equals the top AccountIdBits bits of
\* the digest of username || nonce.
C8_AccountIdOkIffSameValue ==
    pc = "done" =>
        correct_account_id =
            PyBool(py_int(r.account_id, 16)
                   = IntV(sha512_int(r.username \o r.nonce)
                          \div Pow(2, DigestBits - AccountIdBits)))

\* the code's comparison: the text of the account id is hex(expected)
C8_AccountIdOkIffSameText ==
    pc = "done" =>
        correct_account_id =
            PyBool(r.account_id
                   = hex(sha512_int(r.username \o r.nonce)
                         \div Pow(2, DigestBits - AccountIdBits)))

\* a receipt rejected in step 1 although its account id has the expected value
C8_SameValueRejected ==
    /\ pc = "done"
    /\ r.account_id = ToBase(sha512_int(r.username \o r.nonce)
                             \div Pow(2, DigestBits - AccountIdBits), 16)
    /\ correct_account_id = PyFalse

\* C9: verify_receipt never raises on a receipt whose fields parse, whatever
\* the number of preimages and the length of each preimage.
C9_NeverRaises == pc # "raised"

ArityOf(i) == IF i = 1 /\ Len(r.merkle_branch) > 1 THEN r.merkle_leaf_hash_arity
              ELSE r.merkle_arity

\* the code raises exactly on a preimage whose length is not its arity
C9_RaisesOnlyOnArityMismatch ==
    pc = "raised" =>
        \E i \in 1..Len(r.merkle_branch) : Len(r.merkle_branch[i]) # ArityOf(i)

C9_ReturnsWhenAritiesMatch ==
    (\A i \in 1..Len(r.merkle_branch) : Len(r.merkle_branch[i]) = ArityOf(i))
        => pc # "raised"

EffectiveEntry(e) ==
    /\ r.balances[e].token \in {BITCOIN_TOKEN, ETHER_TOKEN}
    /\ \A j \in (e + 1)..Len(r.balances) : r.balances[j].token # r.balances[e].token

\* the digit survives the scaling to proof precision
KeptDigit(e, pos) ==
    LET token == r.balances[e].token
    IN  pos <= Len(r.balances[e].balance)
               - (ACCT_PRECISION_DICT[token] - PROOF_PRECISION_DICT[token])

Congruent(v, w) == IsInt(v) /\ IsInt(w) /\ IntOf(v) % PRIME = IntOf(w) % PRIME

C10_DroppedDigitAccepted ==
    /\ Verified
    /\ tamper # NO_OBJECT
    /\ tamper.kind = "balance"
    /\ EffectiveEntry(tamper.at)
    /\ ~KeptDigit(tamper.at, tamper.pos)

C10_IgnoredEntryAccepted ==
    /\ Verified
    /\ tamper # NO_OBJECT
    /\ tamper.kind = "balance"
    /\ ~EffectiveEntry(tamper.at)

C10_CongruentEntryAccepted ==
    /\ Verified
    /\ tamper # NO_OBJECT
    /\ tamper.kind = "preimage"
    /\ Congruent(tamper.old, tamper.new)

C10_OtherChildAccepted ==
    /\ Verified
    /\ tamper # NO_OBJECT
    /\ tamper.kind = "preimage"
    /\ ~Congruent(tamper.old, tamper.new)

-----------------------------------------------------------------------------
(* The anonymity-set hash: claims *)

RegistersPerAddress(type) == IF type = BTC_SCRIPT THEN 2 ELSE 1

\* every balance list has a non-negative balance for each token and every
\* address decodes under the anonset type
WellFormedAnonset ==
    /\ Len(anonset) = npubaddrs
    /\ \A ii \in 1..Len(anonset) :
          /\ Len(anonset[ii].balances) = BALANCE_DIMENSION
          /\ \A jj \in 1..BALANCE_DIMENSION : anonset[ii].balances[jj] >= 0
          /\ make_address_integer_regs(anonset[ii].address, anonset_type) # RAISE_LIST

\* the hash of spec 4.2: balances address-major and token-minor, registers
\* index-major and register-minor
RefAnonsetHash ==
    LET D == BALANCE_DIMENSION
        k == RegistersPerAddress(anonset_type)
        flat_balances ==
            [m \in 1..(npubaddrs * D) |->
                snapshot_precision_to_proof_precision(
                    get_balance_orders[((m - 1) % D) + 1],
                    anonset[((m - 1) \div D) + 1].balances[((m - 1) % D) + 1])]
        flat_addrs ==
            [m \in 1..(npubaddrs * k) |->
                make_address_integer_regs(anonset[((m - 1) \div k) + 1].address,
                                          anonset_type)[((m - 1) % k) + 1]]
    IN  poseidon_hash(<<linear_hash_many(flat_balances, LHM_ARITY),
                        linear_hash_many(flat_addrs, LHM_ARITY)>>, 2)

\* C4: for every anonset type and every well-formed anonset of npubaddrs
\* addresses, one or more included, get_anonset_hash returns the Poseidon
\* hash of the linear hash of the scaled balances and the linear hash of
\* the address registers.
C4_AnonsetHashIsHashOfBalancesAndAddresses ==
    (anon_called /\ WellFormedAnonset) => anonset_hash = RefAnonsetHash

\* what the code does: the hash for the empty anonset, an exception for
\* every other one
C4_ReturnsOnlyForEmptyAnonset ==
    anon_called =>
        anonset_hash = IF Len(anonset) = 0 /\ npubaddrs = 0 THEN RefAnonsetHash
                       ELSE RAISE

\* a well-formed anonset of two Base58Check addresses under BTC_PUBKEY
C4_TwoPubkeysRaise ==
    /\ anon_called
    /\ WellFormedAnonset
    /\ anonset_type = BTC_PUBKEY
    /\ Len(anonset) = 2
    /\ anonset_hash = RAISE

C4_EmptyAnonsetHashed ==
    /\ anon_called
    /\ Len(anonset) = 0
    /\ anonset_hash # RAISE

-----------------------------------------------------------------------------
(* Public outputs: sensitivity *)

IsMsgHashPath(path) == path[Len(path)] = "msg_hash"

\* C11: two bundles that differ in exactly one integer read by the
\* aggregation, whatever integer it is, get different hashes.
C11_OneIntegerChangesHash ==
    (pub_altered # NO_OBJECT /\ final_hash # NONE) => final_hash # prev_hash

\* what the code does: the hashes are equal exactly when the changed field
\* is a Poseidon input and its two values are congruent modulo the prime
C11_SameHashIffCongruent ==
    (pub_altered # NO_OBJECT /\ final_hash # NONE) =>
        (final_hash = prev_hash
            <=> /\ ~IsMsgHashPath(pub_altered.path)
                /\ pub_altered.old % PRIME = pub_altered.new % PRIME)

\* a field raised by the prime, hashed to the same result
C11_CongruentValueSameHash ==
    /\ pub_altered # NO_OBJECT
    /\ final_hash # NONE
    /\ final_hash # RAISE
    /\ pub_altered.new = pub_altered.old + PRIME
    /\ final_hash = prev_hash

-----------------------------------------------------------------------------
(* Scaling: claims *)

\* 4.4: v * 10^(out - in) when out >= in; otherwise q = v div 10^d, plus one
\* when round_up and v mod 10^d # 0
RefScale(v, in_dec, out_dec, round_up) ==
    IF out_dec >= in_dec THEN v * Pow(10, out_dec - in_dec)
    ELSE LET d == in_dec - out_dec
             q == v \div Pow(10, d)
             rem == v % Pow(10, d)
         IN  IF round_up /\ rem # 0 THEN q + 1 ELSE q

\* the decimals <<from, to>> of a token for the two conversions; BtcDecimals
\* stands for 8, EthAcctDecimals for 18 and EthProofDecimals for 7
RefDecimals(token) ==
    IF token = <<"B", "T", "C">> THEN <<BtcDecimals, BtcDecimals>>
    ELSE <<EthAcctDecimals, EthProofDecimals>>

RefToProof(token, v) ==
    IF token \in {<<"B", "T", "C">>, <<"E", "T", "H">>}
    THEN RefScale(v, RefDecimals(token)[1], RefDecimals(token)[2], TRUE)
    ELSE v

\* C12: for v >= 0, scale_units returns the value of 4.4, and the two
\* conversions to proof precision apply it with the decimals of BTC and ETH
\* and return the value of every other token unchanged.
C12_ScaleUnitsFollowsDefinition ==
    sc_value >= 0 =>
        /\ sc_result # NONE =>
               sc_result = IntV(RefScale(sc_value, sc_in_dec, sc_out_dec, sc_round_up))
        /\ sc_snapshot # NONE => sc_snapshot = IntV(RefToProof(sc_token, sc_value))
        /\ sc_account # NONE => sc_account = IntV(RefToProof(sc_token, sc_value))

\* a value scaled down with a remainder and rounded up, and an ETH amount
\* converted with a remainder
C12_Witness ==
    /\ sc_value > 0
    /\ sc_in_dec > sc_out_dec
    /\ sc_round_up
    /\ sc_value % Pow(10, sc_in_dec - sc_out_dec) # 0
    /\ sc_result = IntV((sc_value \div Pow(10, sc_in_dec - sc_out_dec)) + 1)
    /\ sc_token = ETHER_TOKEN
    /\ sc_account # NONE
    /\ sc_snapshot # NONE

\* C13: for v >= 0, scale_units(v, d, d) = v, and with round_up set scaling
\* from a to b decimals and back to a gives at least v.
C13_ScalingLaws ==
    sc_value >= 0 =>
        /\ (sc_result # NONE /\ sc_in_dec = sc_out_dec) => sc_result = IntV(sc_value)
        /\ (sc_back # NONE /\ sc_round_up) =>
               /\ sc_back # RAISE
               /\ IntOf(sc_back) >= sc_value

\* a value rounded up on the way down and so larger on the way back
C13_Witness ==
    /\ sc_round_up
    /\ sc_in_dec > sc_out_dec
    /\ sc_back # NONE
    /\ sc_back # RAISE
    /\ IntOf(sc_back) > sc_value
    /\ sc_value > 0

\* C14: a negative value makes scale_units and both conversions fail, for
\* every token.
C14_NegativeIsFatalEverywhere ==
    sc_value < 0 =>
        /\ sc_result # NONE => sc_result = RAISE
        /\ sc_snapshot # NONE => sc_snapshot = RAISE
        /\ sc_account # NONE => sc_account = RAISE

\* what the code does: the conversions fail on a negative value only for
\* BTC and ETH
C14_NegativeIsFatalForListedTokens ==
    sc_value < 0 =>
        /\ sc_result # NONE => sc_result = RAISE
        /\ sc_snapshot # NONE =>
               sc_snapshot = IF sc_token \in {BITCOIN_TOKEN, ETHER_TOKEN} THEN RAISE
                             ELSE IntV(sc_value)
        /\ sc_account # NONE =>
               sc_account = IF sc_token \in {BITCOIN_TOKEN, ETHER_TOKEN} THEN RAISE
                            ELSE IntV(sc_value)

\* a negative balance of a reserved token returned as it is
C14_NegativeReservedReturned ==
    /\ sc_value < 0
    /\ sc_token = get_balance_orders[3]
    /\ sc_snapshot = IntV(sc_value)

-----------------------------------------------------------------------------
(* poseidon_hash: claims *)

\* C15: poseidon_hash fails when the number of inputs is not the arity;
\* otherwise it returns element 0 of the permutation of the state of
\* arity + 1 words made of a zero followed by the inputs in order.
C15_HashIsFirstWordOfPermutedState ==
    ph_output # NONE =>
        IF Len(ph_input) # ph_arity THEN ph_output = RAISE
        ELSE ph_output = perm(<<IntV(0)>> \o ph_input, ph_arity + 1)[1]

\* a hash of two different words, and so a state in which the order shows
C15_Witness ==
    /\ ph_output # NONE
    /\ ph_output # RAISE
    /\ ph_arity = 2
    /\ ph_input[1] # ph_input[2]

C15_WrongLengthFails ==
    /\ ph_output = RAISE
    /\ Len(ph_input) = ph_arity + 1

-----------------------------------------------------------------------------
(* Addresses: claims *)

IsBech32Text(a) == Len(a) >= 3 /\ lower(slice_to(a, 3)) = <<"b", "c", "1">>
IsBase58Text(a) == Len(a) >= 1 /\ a[1] \in {"1", "3"}
AllUpper(a) == a = upper(a) /\ a # lower(a)
AllLower(a) == a = lower(a)
MixedCase(a) == a # upper(a) /\ a # lower(a)

\* C16: the upper-case form of a valid lower-case bc1 address decodes to
\* the integer and the registers of the lower-case form, and a mixed-case
\* form is rejected.
C16_UpperCaseBech32Accepted ==
    /\ (ma_int # NONE /\ IsBech32Text(ma_address)
            /\ btc_addr_to_int(lower(ma_address)) # RAISE) =>
           /\ AllUpper(ma_address) => ma_int = btc_addr_to_int(lower(ma_address))
           /\ MixedCase(ma_address) => ma_int = RAISE
    /\ (ma_regs # << >> /\ IsBech32Text(ma_address) /\ ma_type = BTC_SCRIPT
            /\ btc_addr_to_int(lower(ma_address)) # RAISE) =>
           /\ AllUpper(ma_address) =>
                  ma_regs = make_address_integer_regs(lower(ma_address), ma_type)
           /\ MixedCase(ma_address) => ma_regs = RAISE_LIST

\* what the code does: a bc1 address with any upper-case letter is rejected
C16_OnlyLowerCaseBech32Decoded ==
    (ma_int # NONE /\ IsBech32Text(ma_address) /\ ~AllLower(ma_address))
        => ma_int = RAISE

\* the upper-case form of a valid address, rejected
C16_UpperCaseRejected ==
    /\ ma_int = RAISE
    /\ AllUpper(ma_address)
    /\ IsBech32Text(ma_address)
    /\ btc_addr_to_int(lower(ma_address)) # RAISE

\* C17: an address whose encoding does not belong to the anonset type (a
\* bc1 address under BTC_PUBKEY, a Base58Check address under BTC_SCRIPT) is
\* not turned into registers.
C17_MismatchedAddressRejected ==
    (ma_regs # << >>
        /\ \/ ma_type = BTC_PUBKEY /\ IsBech32Text(ma_address)
           \/ ma_type = BTC_SCRIPT /\ IsBase58Text(ma_address))
        => ma_regs = RAISE_LIST

\* a bc1 address given one register under BTC_PUBKEY, and a Base58Check
\* address given two under BTC_SCRIPT
C17_Bech32UnderPubkeyEncoded ==
    /\ ma_type = BTC_PUBKEY
    /\ IsBech32Text(ma_address)
    /\ ma_regs # << >>
    /\ ma_regs # RAISE_LIST

C17_Base58UnderScriptEncoded ==
    /\ ma_type = BTC_SCRIPT
    /\ IsBase58Text(ma_address)
    /\ ma_regs # << >>
    /\ ma_regs # RAISE_LIST

\* what the code does: the registers depend on the type and the decoded
\* integer only
DecodedAddress == IF ma_type = ETH THEN py_int(ma_address, 16)
                  ELSE btc_addr_to_int(ma_address)

AddressLimit == IF ma_type = BTC_SCRIPT THEN Pow(2, ScriptAddrBits)
                ELSE Pow(2, PubkeyAddrBits)

C17_EncodedWheneverDecodedInRange ==
    ma_regs # << >> =>
        (ma_regs = RAISE_LIST
            <=> \/ DecodedAddress = RAISE
                \/ IntOf(DecodedAddress) >= AddressLimit)

\* C19: the number of registers is 1 for BTC_PUBKEY and ETH and 2 for
\* BTC_SCRIPT; the two registers of BTC_SCRIPT are below 2^ScriptRegBits,
\* least significant first, and add up to the decoded integer; a decoded
\* integer at or above the limit of the type is a fatal error.
C19_RegistersOfAddress ==
    (ma_regs # << >> /\ DecodedAddress # RAISE) =>
        IF IntOf(DecodedAddress) >= AddressLimit THEN ma_regs = RAISE_LIST
        ELSE /\ ma_regs # RAISE_LIST
             /\ Len(ma_regs) = IF ma_type = BTC_SCRIPT THEN 2 ELSE 1
             /\ ma_type # BTC_SCRIPT => ma_regs[1] = DecodedAddress
             /\ ma_type = BTC_SCRIPT =>
                   /\ \A i \in 1..2 : /\ IntOf(ma_regs[i]) >= 0
                                      /\ IntOf(ma_regs[i]) < Pow(2, ScriptRegBits)
                   /\ IntOf(ma_regs[1]) + IntOf(ma_regs[2]) * Pow(2, ScriptRegBits)
                          = IntOf(DecodedAddress)

\* a script address with two different registers, both in use
C19_Witness ==
    /\ ma_type = BTC_SCRIPT
    /\ ma_regs # << >>
    /\ ma_regs # RAISE_LIST
    /\ IntOf(ma_regs[2]) > 0
    /\ IntOf(ma_regs[1]) > 0
    /\ ma_regs[1] # ma_regs[2]

C19_TooLargeIsFatal ==
    /\ ma_regs = RAISE_LIST
    /\ DecodedAddress # RAISE
    /\ IntOf(DecodedAddress) >= AddressLimit

-----------------------------------------------------------------------------
(* The permutation: claims *)

RECURSIVE RefPow(_, _)
RefPow(x, e) == IF e = 0 THEN 1 ELSE (x * RefPow(x, e - 1)) % PRIME

RECURSIVE RefRowSum(_, _, _)
RefRowSum(row, v, j) ==
    IF j = 0 THEN 0 ELSE RefRowSum(row, v, j - 1) + row[j] * v[j]

\* round number k (from 0) of the 2 Rf + RP rounds, applied to v
RefRound(v, k) ==
    LET t == Len(v)
        isFull == k < Rf \/ k >= Rf + pw_RP
        c == [i \in 1..t |-> (v[i] + pw_RC[k * t + i]) % PRIME]
        sb == [i \in 1..t |-> IF isFull \/ i = 1 THEN RefPow(c[i], 5) ELSE c[i]]
    IN  [i \in 1..t |-> RefRowSum(pw_M[i], sb, t) % PRIME]

ConstantsNeeded == pw_t * (2 * Rf + pw_RP)

\* C18: perm runs Rf full rounds, RP partial rounds and Rf full rounds, each
\* adding the next t round constants, applying the S-box (to every word in a
\* full round, to the first word in a partial round) and multiplying by the
\* MDS matrix; it returns a state only after all 2 Rf + RP rounds, and
\* fails whenever the number of round constants is not t * (2 Rf + RP).
C18_PermRoundsAndConstantCount ==
    [][ /\ pw_r' = pw_r + 1 =>
              /\ pw_rc = pw_t * pw_r
              /\ pw_words' = RefRound(pw_words, pw_r)
        /\ (pw_pc' = "done" /\ Len(pw_input) = pw_t) =>
              IF Len(pw_RC) # ConstantsNeeded THEN pw_out' = RAISE_LIST
              ELSE /\ pw_r' = 2 * Rf + pw_RP
                   /\ pw_rc' = ConstantsNeeded
                   /\ pw_out' = [i \in 1..pw_t |-> IntV(pw_words'[i])]
      ]_vars

\* a permutation with partial rounds that returned a state
C18_Witness ==
    /\ pw_pc = "done"
    /\ pw_out # RAISE_LIST
    /\ pw_RP >= 1
    /\ pw_r = 2 * Rf + pw_RP
    /\ Len(pw_RC) = ConstantsNeeded
    /\ pw_out # pw_input

C18_TooShortFails ==
    /\ pw_out = RAISE_LIST
    /\ Len(pw_input) = pw_t
    /\ Len(pw_RC) < ConstantsNeeded

C18_TooLongFails ==
    /\ pw_out = RAISE_LIST
    /\ Len(pw_input) = pw_t
    /\ Len(pw_RC) > ConstantsNeeded

-----------------------------------------------------------------------------
(* The absorb loop: claims *)

\* C20: every iteration of the absorb loop of linear_hash_many leaves fewer
\* remaining inputs than it found, for every arity from 1, so the loop ends.
C20_EachIterationShortens ==
    [][ll_iters' = ll_iters + 1 => Len(ll_remaining') < Len(ll_remaining)]_vars

\* what the code does: from arity 2 every iteration shortens the remaining
\* inputs, the iterations stay within ceil((len - arity) / (arity - 1)), and
\* the hash returned is the one linear_hash_many computes
IterationBound ==
    IF Len(ll_inputs) <= ll_arity THEN 0
    ELSE (Len(ll_inputs) - ll_arity + ll_arity - 2) \div (ll_arity - 1)

C20_ShortensFromArity2 ==
    [][(ll_arity >= 2 /\ ll_iters' = ll_iters + 1)
          => Len(ll_remaining') < Len(ll_remaining)]_vars

C20_BoundedFromArity2 ==
    ll_arity >= 2 =>
        /\ ll_iters <= IterationBound
        /\ ll_pc = "done" => /\ ll_iters = IterationBound
                             /\ ll_hash = linear_hash_many(ll_inputs, ll_arity)

\* arity 1 with two inputs or more: the remaining inputs are the same after
\* every iteration
C20_Arity1NeverShortens ==
    /\ ll_arity = 1
    /\ ll_iters = MaxIters
    /\ Len(ll_remaining) = Len(ll_inputs) - 1
    /\ Len(ll_remaining) > 0

-----------------------------------------------------------------------------
(* The packed balances: claims *)

\* the proof-precision balances of a receipt, and those of a list of
\* balance entries
BalancesOf(receipt) == receipt_balances_of(receipt, get_balance_orders)
BalancesOfList(entries) == BalancesOf([balances |-> entries])

InLane(balance) == balance >= 0 /\ balance < Pow(2, ACCT_BALANCE_BITS)
AllInLane(balances) == \A j \in 1..Len(balances) : InLane(balances[j])

PackedLeaf(receipt, balances) ==
    get_account_info_packed(IntOf(py_int(receipt.account_id, 16)), balances)

\* the balance vectors of the receipts tried that differ from the one of r
OtherVectors ==
    {BalancesOfList(entries) : entries \in BalanceLists}
        \ {RAISE, BalancesOf(r)}

\* C21: once step 2a has packed the balances of a receipt, every balance is
\* below 2^ACCT_BALANCE_BITS, every packed word is below
\* 2^(ACCT_BALANCE_BITS * ACCT_BALANCES_PER_ELT), and no different balance
\* vector packs to the same leaf preimage.
C21_PackedBalancesFitTheirLanes ==
    pc = "step2b" =>
        /\ AllInLane(BalancesOf(r))
        /\ \A k \in 2..Len(PackedLeaf(r, BalancesOf(r))) :
              IntOf(PackedLeaf(r, BalancesOf(r))[k])
                  < Pow(2, ACCT_BALANCE_BITS * ACCT_BALANCES_PER_ELT)
        /\ \A other \in OtherVectors :
              PackedLeaf(r, other) # PackedLeaf(r, BalancesOf(r))

\* what the code does: vectors of balances that all fit their lanes pack to
\* different leaf preimages, and to words below the lane total
C21_DistinctWhenInLane ==
    (pc = "step2b" /\ AllInLane(BalancesOf(r))) =>
        /\ \A k \in 2..Len(PackedLeaf(r, BalancesOf(r))) :
              IntOf(PackedLeaf(r, BalancesOf(r))[k])
                  < Pow(2, ACCT_BALANCE_BITS * ACCT_BALANCES_PER_ELT)
        /\ \A other \in OtherVectors :
              AllInLane(other) => PackedLeaf(r, other) # PackedLeaf(r, BalancesOf(r))

\* a balance of 2^ACCT_BALANCE_BITS or more, packed and accepted by step 2a
C21_OversizeBalancePacked ==
    /\ pc = "step2b"
    /\ merkle_branch_valid = PyTrue
    /\ \E j \in 1..Len(BalancesOf(r)) :
          BalancesOf(r)[j] >= Pow(2, ACCT_BALANCE_BITS)

\* a leaf preimage accepted by step 2a that is the packed leaf of another
\* balance vector too
C21_TwoVectorsOneLeaf ==
    /\ pc = "step2b"
    /\ merkle_branch_valid = PyTrue
    /\ \E other \in OtherVectors : PackedLeaf(r, other) = r.merkle_branch[1]

====
